---- MODULE Spec2Model ----
(***************************************************************************)
(* Browser session / workflow orchestration of the address plotter.        *)
(*                                                                         *)
(* Five subsystems are modelled, each with its own specification:          *)
(*   SpecOrch    - server.js: the three /api/mymaps-* handlers             *)
(*   SpecImport  - scripts/import-to-mymaps.mjs: main / doImport           *)
(*   SpecSession - scripts/browser-manager.mjs: getBrowser / closeBrowser  *)
(*                 run by several OS processes on one profile directory    *)
(*   SpecCreate  - scripts/create-mymap.mjs: main                          *)
(*   SpecList    - scripts/list-mymaps.mjs: main                           *)
(* Text (error messages, diagnostic output, URLs, output lines) is a       *)
(* sequence of tokens; String.includes is a contiguous-subsequence search. *)
(***************************************************************************)
EXTENDS Integers, Sequences, FiniteSets, TLC

VARIABLES
  \* ---- server.js (Process Orchestrator) ----
  kind,          \* workflow of the request being served: "none" | "list" | "create" | "import"
  child,         \* the spawned subprocess: "none" | "running" | "killed" | "closed", or
                 \* "failed" (spawn failed, 'error' to come) | "errored" ('close' to come)
  stdout,        \* let stdout = '' ... += chunk   (a sequence of lines)
  stderr,        \* let stderr = '' ... += chunk   (a sequence of word tokens)
  responded,     \* let responded = false          (list and create only)
  replies,       \* every res.json(...) call made for the request, in order
  exitCode,      \* the code the 'close' handler received: "none" | "0" | "1" | "null" | "-2"
  timedOut,      \* the request socket's timeout has elapsed
  socketDestroyed, \* the request socket was destroyed without a reply
  authLaunched,  \* launchAuthBrowser() was called by this request's handlers
  authBrowserProcess, \* let authBrowserProcess: "null" | "running" | "failed" (the child it refers to)
  authRunning,   \* re-authentication subprocesses that are running
  authPending,   \* ... that were killed or never started, their 'close' / 'error' event still to come
  served,        \* number of requests started so far
  reqBody        \* the import request's body.mid, and whether EXPORT_KML_PATH exists

orchVars == <<kind, child, stdout, stderr, responded, replies, exitCode,
              timedOut, socketDestroyed, authLaunched, authBrowserProcess, authRunning,
              authPending, served, reqBody>>

VARIABLES
  \* ---- scripts/import-to-mymaps.mjs (one workflow process) ----
  ipc,             \* where main / doImport stands
  attempt,         \* main's loop variable
  lastError,       \* let lastError = null
  err,             \* the error being handled by main's catch block
  browserContext,  \* browser-manager's module-level handle: "null" | "open"
  snapshot,        \* the page as the auth probe sees it
  probe,           \* result of the latest checkGoogleSession: "none" | "valid" | "invalid"
  polls,           \* iterations of waitForMapsUI's loop in this attempt
  exitStatus,      \* the process's exit code: "none" | "0" | "1"
  thrown,          \* the error main() rejected with (written to stderr)
  started,         \* attempts started so far
  expiredAt,       \* the attempt in which a session-expired error was raised, or 0
  lastFailure,     \* the error raised by the latest failed attempt
  failed,          \* number of attempts that have failed
  phases,          \* the phases the current attempt has entered, in order
  out,             \* what the process has written to standard output, line by line
  layers,          \* layers this run has added to the target map
  clicked,         \* an 'Add layer' click of the current attempt worked
  settled,         \* what waitForImportComplete returned: "none" | "true" | "false"
  settlePolls,     \* iterations of waitForImportComplete's loop in this attempt
  settleObs,       \* the page as the latest settle poll found it
  sessionId,       \* sessions launched so far; the live one carries this number
  pageSessions,    \* per attempt that got a page: the session the page came from
  cleaned,         \* browser.forceCleanup() calls so far
  layerName,       \* const layerName = process.argv[4] || ''
  importArgs,      \* const mid = process.argv[2], and whether kmlPath exists
  importClicks,    \* 'Import' clicks that worked in the current attempt
  fileSetBy,       \* the strategy that supplied the file in the current attempt (0: none)
  fileSkipped      \* history: a strategy before the one that supplied the file would have worked

\* the part of the import state most steps leave alone
impAux == <<out, layers, clicked, settled, settlePolls, settleObs, sessionId,
            pageSessions, cleaned>>

\* what the click and file strategies of the current attempt have done
impSteps == <<importClicks, fileSetBy, fileSkipped>>

impVars == <<ipc, attempt, lastError, err, browserContext, snapshot, probe, polls,
             exitStatus, thrown, started, expiredAt, lastFailure, failed, phases,
             impAux, layerName, importArgs, impSteps>>

VARIABLES
  \* ---- scripts/browser-manager.mjs, one instance per OS process ----
  pkillMatches,   \* the pkill pattern matches the browsers of this profile
                  \* (platform is not win32 and the profile path contains
                  \* 'playwright-my-maps-profile')
  lockFile,       \* the Singleton* artifacts of the profile: 0, or the process whose browser made them
  live,           \* processes whose browser is running on the profile
  spc,            \* where each process stands in getBrowser / closeBrowser
  launchAttempt,  \* getBrowser's loop variable `attempt`
  ctx,            \* each process's browserContext: "null" | "set"
  gbError,        \* the error getBrowser threw to its caller
  fails,          \* launch attempts of this getBrowser call that failed
  lockFails,      \* ... that failed with a profile-lock error
  metLock,        \* a configuration of the current attempt met the profile lock
  runs,           \* workflow runs each process has started
  pages,          \* each process's browserContext.pages().length
  closeLog,       \* what closeBrowser's try block has just done, in order
  orphaned        \* contexts each process launched that run on without a handle

sessVars == <<pkillMatches, lockFile, live, spc, launchAttempt, ctx, gbError,
              fails, lockFails, metLock, runs, pages, closeLog, orphaned>>

VARIABLES
  \* ---- scripts/create-mymap.mjs (one workflow process) ----
  cpc,            \* where main stands
  cbrowser,       \* browser-manager's browserContext in this process: "null" | "open"
  cargv,          \* process.argv[2]
  cSnapshot,      \* the page as the auth probe sees it
  cprobe,         \* result of checkGoogleSession: "none" | "valid" | "invalid"
  curl,           \* const url = page.url()
  cmid,           \* const mid = midMatch[1]
  renameOutcome,  \* how the rename went: "none" | "skipped" | "ok" | "failed" | "timeout"
  shareOutcome,   \* how the share dialog went: "none" | "ok" | "failed" | "timeout"
  cstdout,        \* what the process has written to standard output, line by line
  cstderr,        \* ... and to standard error
  cexit,          \* the process's exit code: "none" | "0" | "1"
  cthrown,        \* the error main() rejected with
  csteps          \* workflow steps carried out on the page after the navigation

createVars == <<cpc, cbrowser, cargv, cSnapshot, cprobe, curl, cmid, renameOutcome, shareOutcome,
                cstdout, cstderr, cexit, cthrown, csteps>>

VARIABLES
  \* ---- scripts/list-mymaps.mjs (one workflow process) ----
  lpc,             \* where main stands
  lSnapshot,       \* the page the entry navigation ended on
  mapsFromNetwork, \* const mapsFromNetwork = []   (identifiers, in push order)
  captured,        \* window.__listMymapsCaptured, inside the page
  seenMid,         \* const seenMid = new Set()
  lrepeated,       \* history: some source has offered an identifier twice
  fromNet,         \* identifiers the response listener has added
  fromHook,        \* identifiers read from the in-page hook
  fromDom,         \* identifiers the DOM scrape returned
  domRun,          \* the DOM scrape was run
  lresult,         \* the maps written as the result
  lstdout,         \* what the process has written to standard output, line by line
  lstderr,         \* ... and to standard error
  lexit,           \* the process's exit code: "none" | "0" | "1"
  lpolls,          \* iterations of the poll loop
  lsteps           \* workflow steps carried out on the page after the navigation

listVars == <<lpc, lSnapshot, mapsFromNetwork, seenMid, lrepeated, captured, fromNet,
              fromHook, fromDom, domRun, lresult, lstdout, lstderr, lexit, lpolls, lsteps>>

VARIABLES
  \* ---- scripts/launch-auth-browser.mjs (the re-authentication subprocess) ----
  apc,        \* where main stands: "launch" | "goto" | "poll" | "exited"
  elapsed,    \* let elapsed = 0
  aview,      \* page.url() and page.content() as the latest poll read them
  actx,       \* the persistent context: "none" | "open" | "closed"
  aexit       \* the process's exit code: "none" | "0" | "1"

authVars == <<apc, elapsed, aview, actx, aexit>>

VARIABLES
  \* ---- server.js: POST /api/clean-and-geocode, geocodeOne ----
  useGoogle,     \* const useGoogle = !!GOOGLE_API_KEY
  geocodeCache,  \* the keys of geocodeCache
  grows,         \* per request: the cleaned addresses of its rows, in order
  rowpc,         \* per request and row: "todo" | "fetching" | "done"
  gpc,           \* per request: "idle" | "running" | "sleeping" | "replied"
  upstream,      \* per key: upstream geocoding calls made so far
  now,           \* the time, in units of NOMINATIM_DELAY_MS
  lastCallAt,    \* when the latest upstream call was issued (-1: never)
  sleepFrom,     \* per request: when its sleep(NOMINATIM_DELAY_MS) began
  tooSoon        \* an upstream call was issued before a full delay had passed

geoVars == <<useGoogle, geocodeCache, grows, rowpc, gpc, upstream, now, lastCallAt,
             sleepFrom, tooSoon>>

VARIABLES
  \* ---- server.js: requireAuth and the routes behind it ----
  sharedSecret,  \* SHARED_SECRET is configured
  hreq,          \* the latest request: method, path, cookie header, login secret
  hstatus,       \* the status it was answered with
  hhandler,      \* the path of the route handler it reached (<<>>: none)
  heffect        \* what was done for it: "spawn", "write", "geocode", "cookie", "none"

gateVars == <<sharedSecret, hreq, hstatus, hhandler, heffect>>

\* the subsystems that the workflow scripts and their routes leave alone
otherVars == <<authVars, geoVars, gateVars>>

vars == <<orchVars, impVars, sessVars, createVars, listVars, otherVars>>

-----------------------------------------------------------------------------
(* Text helpers *)

\* String.prototype.toLowerCase on one token
Lower(tok) ==
  CASE tok = "Google"  -> "google"
    [] tok = "Session" -> "session"
    [] tok = "Expired" -> "expired"
    [] tok = "Sign"    -> "sign"
    [] tok = "Verify"  -> "verify"
    [] tok = "Error"   -> "error"
    [] tok = "The"     -> "the"
    [] tok = "Could"   -> "could"
    [] tok = "Import"  -> "import"
    [] tok = "ACCOUNTS.GOOGLE.COM" -> "accounts.google.com"
    [] tok = "/SignIn" -> "/signin"
    [] tok = "/ServiceLogin" -> "/servicelogin"
    [] tok = "/CheckCookie"  -> "/checkcookie"
    [] tok = "/AccountChooser" -> "/accountchooser"
    [] tok = "Main" -> "main"
    [] tok = "St" -> "st"
    [] tok = "Oak" -> "oak"
    [] tok = "/API/" -> "/api/"
    [] OTHER -> tok

toLowerCase(msg) == [i \in 1..Len(msg) |-> Lower(msg[i])]

\* String.prototype.includes: needle occurs as a contiguous run of msg
includes(msg, needle) ==
  \E i \in 0..(Len(msg) - Len(needle)) :
     \A j \in 1..Len(needle) : msg[i + j] = needle[j]

\* String.prototype.trim on one output line (whitespace is the token " ")
RECURSIVE trimLeft(_)
trimLeft(s) == IF s # <<>> /\ Head(s) = " " THEN trimLeft(Tail(s)) ELSE s

RECURSIVE trimRight(_)
trimRight(s) ==
  IF s # <<>> /\ s[Len(s)] = " " THEN trimRight(SubSeq(s, 1, Len(s) - 1)) ELSE s

trim(s) == trimRight(trimLeft(s))

startsWith(s, tok) == s # <<>> /\ Head(s) = tok

\* Array.prototype.filter
RECURSIVE filter(_, _)
filter(seq, tok) ==
  IF seq = <<>> THEN <<>>
  ELSE IF startsWith(trim(Head(seq)), tok)
       THEN <<Head(seq)>> \o filter(Tail(seq), tok)
       ELSE filter(Tail(seq), tok)

-----------------------------------------------------------------------------
(* JSON.parse on a line of tokens.  Map entries are the atoms "A", "B";    *)
(* object members are the pairs "mid:M", "title:T".                        *)

Atoms == {"A", "B"}
Pairs == {"mid:M", "mid:N", "title:T", "title:Untitled map"}

\* elems separated by "," tokens: e , e , e
Separated(inner, Elems) ==
  \/ inner = <<>>
  \/ /\ Len(inner) % 2 = 1
     /\ \A i \in 1..Len(inner) :
          IF i % 2 = 1 THEN inner[i] \in Elems ELSE inner[i] = ","

Bracketed(t, open, close, Elems) ==
  /\ Len(t) >= 2
  /\ t[1] = open
  /\ t[Len(t)] = close
  /\ Separated(SubSeq(t, 2, Len(t) - 1), Elems)

ElemsOf(t) ==
  LET inner == SubSeq(t, 2, Len(t) - 1)
  IN  [i \in 1..((Len(inner) + 1) \div 2) |-> inner[2 * i - 1]]

Range(s) == {s[i] : i \in 1..Len(s)}

NoValue == [ok |-> FALSE, type |-> "none", items |-> <<>>, pairs |-> {}]

JSONparse(line) ==
  LET t == trim(line)
  IN  IF Bracketed(t, "[", "]", Atoms)
      THEN [ok |-> TRUE, type |-> "array", items |-> ElemsOf(t), pairs |-> {}]
      ELSE IF Bracketed(t, "{", "}", Pairs)
      THEN [ok |-> TRUE, type |-> "object", items |-> <<>>,
            pairs |-> Range(ElemsOf(t))]
      ELSE NoValue

-----------------------------------------------------------------------------
(* Error messages thrown by the workflow scripts *)

\* new Error('Google session expired - sign in required. The app will help you
\* re-authenticate.')
SessionExpiredMsg ==
  <<"Google", "session", "expired", "-", "sign", "in", "required", ".",
    "The", "app", "will", "help", "you", "re-authenticate", ".">>

UiNotReadyMsg ==
  <<"My", "Maps", "UI", "did", "not", "load", "-", "Add", "layer", "button",
    "not", "found">>

AddLayerMsg == <<"Could", "not", "click", "Add", "layer", "button">>

ImportButtonMsg == <<"Could", "not", "click", "Import", "button">>

\* a Playwright timeout, as thrown by page.goto or a locator
TimeoutMsg == <<"Timeout", "exceeded">>

SetFileMsg == <<"Could", "not", "set", "file", "for", "import", ":">> \o TimeoutMsg

ImportShownErrorMsg ==
  <<"Import", "failed", "-", "Google", "showed", "an", "error", "message">>

-----------------------------------------------------------------------------
(* server.js : Process Orchestrator *)

MaxLines == 2          \* lines a subprocess writes to standard output
MaxStderrTokens == 3   \* a further stderr chunk arrives only while stderr is this short
MaxRequests == 2       \* requests served one after another
MaxAuthChildren == 2   \* re-authentication subprocesses whose 'close' / 'error' is still to come

Kinds == {"list", "create", "import"}

\* what a workflow subprocess may write to standard output, line by line
Lines ==
  { <<"[", "A", "]">>,                         \* a map list
    <<" ", "[", "A", ",", "B", "]">>,          \* a map list, indented
    <<"[", "]">>,                              \* the empty map list
    <<"[", "x", "]", "x">>,                    \* "[tag] text" diagnostics
    <<"Session", "expired">>,                  \* plain diagnostics
    <<"{", "mid:M", ",", "title:T", "}">>,     \* a created map
    <<"{", "title:T", "}">>,                   \* an object without mid
    <<"{", "x">> }                             \* "{..." diagnostics

\* what a workflow subprocess may write to standard error, chunk by chunk
SessionExpiredText == <<"Error", ":">> \o SessionExpiredMsg

StderrChunks ==
  { SessionExpiredText,
    <<"Sign", "in", "required">>,
    <<"Verify", "it", "'s", "you">>,
    <<"Error", ":", "Could", "not", "click", "Import", "button">>,
    <<"[import]", "Step", "1">> }

\* the whole of stdout as one text, lines joined by "\n"
RECURSIVE join(_)
join(lines) ==
  IF lines = <<>> THEN <<>>
  ELSE IF Len(lines) = 1 THEN Head(lines)
  ELSE Head(lines) \o <<"\n">> \o join(Tail(lines))

\* mutant: the phrases are searched without lower-casing the message
isSessionExpiredErrorCaseSensitive(errorMsg) ==
  IF errorMsg = <<>> THEN FALSE
  ELSE \/ includes(errorMsg, <<"session", "expired">>)
       \/ includes(errorMsg, <<"sign", "in", "required">>)
       \/ includes(errorMsg, <<"verify", "it">>)
       \/ includes(errorMsg, <<"re-authenticate">>)

isSessionExpiredError(errorMsg) ==
  IF errorMsg = <<>> THEN FALSE
  ELSE LET lower == toLowerCase(errorMsg)
       IN  \/ includes(lower, <<"session", "expired">>)
           \/ includes(lower, <<"sign", "in", "required">>)
           \/ includes(lower, <<"verify", "it">>)
           \/ includes(lower, <<"re-authenticate">>)

NoError == <<>>
EmptyArray == [ok |-> TRUE, type |-> "array", items |-> <<>>, pairs |-> {}]
OkTrue == [ok |-> TRUE, type |-> "object", items |-> <<>>, pairs |-> {"ok:true"}]

ListHint == <<"You", "can", "enter", "your", "map", "ID", "manually", "below">>
ListTimeoutError == <<"Timed", "out", "waiting", "for", "maps", "list", ".", "Try", "again", ".">>

\* the body and status handed to res.json
Reply(status, error, value) == [status |-> status, error |-> error, value |-> value]

last(seq) == seq[Len(seq)]

\* GET /api/mymaps-list, child.on('close'): the diagnostic message of a failed run
listMsg == IF stderr # <<>> THEN stderr ELSE <<"Failed", "to", "list", "maps">>

listLaunchesAuth(code) ==
  code # "0" /\ (isSessionExpiredError(listMsg) \/ isSessionExpiredError(join(stdout)))

listReply(code) ==
  IF code # "0"
  THEN Reply(500, listMsg \o ListHint, EmptyArray)
  ELSE LET lines == filter(stdout, "[")
           line  == IF lines # <<>> THEN last(lines) ELSE <<"[", "]">>
           maps  == JSONparse(line)
       IN  IF maps.ok
           THEN Reply(200, NoError, IF maps.type = "array" THEN maps ELSE EmptyArray)
           ELSE Reply(500, <<"Invalid", "map", "list", "output">>, EmptyArray)

\* POST /api/mymaps-create, child.on('close')
createMsg == IF stderr # <<>> THEN stderr ELSE <<"Failed", "to", "create", "map">>

createLaunchesAuth(code) == code # "0" /\ isSessionExpiredError(createMsg)

createReply(code) ==
  IF code # "0"
  THEN Reply(500, createMsg, NoValue)
  ELSE LET lines  == filter(stdout, "{")
           line   == IF lines # <<>> THEN last(lines) ELSE <<"{", "}">>
           result == JSONparse(line)
       IN  IF result.ok /\ "mid:M" \in result.pairs
           THEN Reply(200, NoError, result)
           ELSE Reply(500, <<"Invalid", "create-map", "output">>, NoValue)

\* POST /api/mymaps-import, child.on('close')
importMsg == IF stderr # <<>> THEN stderr ELSE <<"Import", "failed">>

importLaunchesAuth(code) == code # "0" /\ isSessionExpiredError(importMsg)

importReply(code) ==
  IF code # "0" THEN Reply(500, importMsg, NoValue) ELSE Reply(200, NoError, OkTrue)

\* launchAuthBrowser(): if (authBrowserProcess) kill it and forget it; spawn;
\* remember the new child (spawned: the spawn worked, else 'error' will follow)
launchAuthBrowser(spawned) ==
  LET killed  == authBrowserProcess = "running"
      running == IF killed THEN authRunning - 1 ELSE authRunning
      pending == IF killed THEN authPending + 1 ELSE authPending
  IN  /\ authRunning + authPending < MaxAuthChildren
      /\ authRunning' = (IF spawned THEN running + 1 ELSE running)
      /\ authPending' = (IF spawned THEN pending ELSE pending + 1)
      /\ authBrowserProcess' = (IF spawned THEN "running" ELSE "failed")

\* what an import request can carry as req.body.mid (its typeof, and whether
\* it is truthy), with EXPORT_KML_PATH present or not
Bodies ==
  [mid : { [type |-> "undefined", truthy |-> FALSE],
           [type |-> "string", truthy |-> FALSE],
           [type |-> "number", truthy |-> TRUE],
           [type |-> "string", truthy |-> TRUE] },
   kml : BOOLEAN]

ValidBody == [mid |-> [type |-> "string", truthy |-> TRUE], kml |-> TRUE]

\* mutant: the export file is not looked for
importBodyErrorMidOnly(body) ==
  IF ~body.mid.truthy \/ body.mid.type # "string"
  THEN <<"Missing", "map", "id", "(mid)">>
  ELSE NoError

\* POST /api/mymaps-import: the two checks before spawn, NoError when both pass
importBodyError(body) ==
  IF ~body.mid.truthy \/ body.mid.type # "string"
  THEN <<"Missing", "map", "id", "(mid)">>
  ELSE IF ~body.kml
       THEN <<"KML", "not", "saved", ".", "Click", "Add to Google My Maps", "first", ".">>
       ELSE NoError

\* the route handler up to and including spawn(...), which starts the
\* subprocess or fails to; the import route returns a 400 reply instead when
\* one of its checks fails
StartRequest(k) ==
  /\ kind = "none" \/ child = "closed" \/ (child = "none" /\ replies # <<>>)
  /\ served < MaxRequests
  /\ kind' = k
  /\ \E body \in (IF k = "import" THEN Bodies ELSE {ValidBody}) :
       /\ reqBody' = body
       /\ IF k = "import" /\ importBodyError(body) # NoError
          THEN /\ child' = "none"
               /\ replies' = <<Reply(400, importBodyError(body), NoValue)>>
          ELSE /\ child' \in {"running", "failed"}
               /\ replies' = <<>>
  /\ stdout' = <<>>
  /\ stderr' = <<>>
  /\ responded' = FALSE
  /\ exitCode' = "none"
  /\ timedOut' = "no"
  /\ socketDestroyed' = FALSE
  /\ authLaunched' = FALSE
  /\ served' = served + 1
  /\ UNCHANGED <<authBrowserProcess, authRunning, authPending>>
  /\ UNCHANGED <<impVars, sessVars, createVars, listVars, otherVars>>

\* child.stdout.on('data', ...): list and create collect stdout, import does not
ChildStdout(line) ==
  /\ child = "running"
  /\ kind \in {"list", "create"}
  /\ Len(stdout) < MaxLines
  /\ stdout' = Append(stdout, line)
  /\ UNCHANGED <<kind, child, stderr, responded, replies, exitCode, timedOut,
                 socketDestroyed, authLaunched, authBrowserProcess, authRunning, authPending, served, reqBody>>
  /\ UNCHANGED <<impVars, sessVars, createVars, listVars, otherVars>>

\* child.stderr.on('data', ...)
ChildStderr(chunk) ==
  /\ child = "running"
  /\ Len(stderr) <= MaxStderrTokens
  /\ stderr' = stderr \o chunk
  /\ UNCHANGED <<kind, child, stdout, responded, replies, exitCode, timedOut,
                 socketDestroyed, authLaunched, authBrowserProcess, authRunning, authPending, served, reqBody>>
  /\ UNCHANGED <<impVars, sessVars, createVars, listVars, otherVars>>

\* child.on('close', (code) => ...): a running child exits with 0 or 1, a child
\* killed by SIGTERM closes with code null
ChildClose(code) ==
  /\ \/ child = "running" /\ code \in {"0", "1"}
     \/ child = "killed" /\ code = "null"
     \/ child = "errored" /\ code = "-2"
  /\ child' = "closed"
  /\ exitCode' = code
  /\ IF kind \in {"list", "create"} /\ responded
     THEN UNCHANGED <<responded, replies, authLaunched, authBrowserProcess, authRunning,
                      authPending>>
     ELSE LET launches == CASE kind = "list"   -> listLaunchesAuth(code)
                            [] kind = "create" -> createLaunchesAuth(code)
                            [] kind = "import" -> importLaunchesAuth(code)
              reply    == CASE kind = "list"   -> listReply(code)
                            [] kind = "create" -> createReply(code)
                            [] kind = "import" -> importReply(code)
          IN  /\ IF launches
                 THEN /\ \E spawned \in BOOLEAN : launchAuthBrowser(spawned)
                      /\ authLaunched' = TRUE
                 ELSE UNCHANGED <<authBrowserProcess, authRunning, authPending, authLaunched>>
              /\ replies' = Append(replies, reply)
              /\ responded' = (IF kind = "import" THEN responded ELSE TRUE)
  /\ UNCHANGED <<kind, stdout, stderr, timedOut, socketDestroyed, served, reqBody>>
  /\ UNCHANGED <<impVars, sessVars, createVars, listVars, otherVars>>

\* child.on('error', (err) => ...) after a failed spawn: list and create go
\* through respond(), import calls res.status(500).json directly
ChildError ==
  /\ child = "failed"
  /\ child' = "errored"
  /\ IF kind \in {"list", "create"} /\ responded
     THEN UNCHANGED <<responded, replies>>
     ELSE /\ replies' = Append(replies, Reply(500, <<"spawn", "node", "ENOENT">>,
                                              IF kind = "list" THEN EmptyArray ELSE NoValue))
          /\ responded' = (IF kind = "import" THEN responded ELSE TRUE)
  /\ UNCHANGED <<kind, stdout, stderr, exitCode, timedOut, socketDestroyed, authLaunched,
                 authBrowserProcess, authRunning, authPending, served, reqBody>>
  /\ UNCHANGED <<impVars, sessVars, createVars, listVars, otherVars>>

\* req.setTimeout(...): the list route passes a callback that kills the child and
\* responds; create and import pass none, so the socket is destroyed on timeout
RequestTimeout ==
  /\ kind \in Kinds
  /\ timedOut = "no"
  /\ timedOut' = (IF child = "running" THEN "running" ELSE "after")
  /\ IF kind = "list"
     THEN IF responded
          THEN UNCHANGED <<child, responded, replies, socketDestroyed>>
          ELSE /\ child' = (IF child = "running" THEN "killed" ELSE child)
               /\ responded' = TRUE
               /\ replies' = Append(replies, Reply(500, ListTimeoutError, EmptyArray))
               /\ UNCHANGED socketDestroyed
     ELSE /\ socketDestroyed' = TRUE
          /\ UNCHANGED <<child, responded, replies>>
  /\ UNCHANGED <<kind, stdout, stderr, exitCode, authLaunched, authBrowserProcess, authRunning, authPending, served, reqBody>>
  /\ UNCHANGED <<impVars, sessVars, createVars, listVars, otherVars>>

\* POST /api/launch-auth
LaunchAuthRoute ==
  /\ \E spawned \in BOOLEAN : launchAuthBrowser(spawned)
  /\ UNCHANGED <<kind, child, stdout, stderr, responded, replies, exitCode,
                 timedOut, socketDestroyed, authLaunched, served, reqBody>>
  /\ UNCHANGED <<impVars, sessVars, createVars, listVars, otherVars>>

\* authBrowserProcess.on('close', ...) of a child that ran until it ended by itself
AuthBrowserClose ==
  /\ authRunning > 0
  /\ authRunning' = authRunning - 1
  /\ authBrowserProcess' = "null"
  /\ UNCHANGED authPending
  /\ UNCHANGED <<kind, child, stdout, stderr, responded, replies, exitCode,
                 timedOut, socketDestroyed, authLaunched, served, reqBody>>
  /\ UNCHANGED <<impVars, sessVars, createVars, listVars, otherVars>>

\* authBrowserProcess.on('close', ...) of a child launchAuthBrowser had killed,
\* or authBrowserProcess.on('error', ...) of a child that never started
AuthBrowserLateEvent ==
  /\ authPending > 0
  /\ authPending' = authPending - 1
  /\ authBrowserProcess' = "null"
  /\ UNCHANGED authRunning
  /\ UNCHANGED <<kind, child, stdout, stderr, responded, replies, exitCode,
                 timedOut, socketDestroyed, authLaunched, served, reqBody>>
  /\ UNCHANGED <<impVars, sessVars, createVars, listVars, otherVars>>

InitOrchVars ==
  /\ kind = "none"
  /\ child = "none"
  /\ stdout = <<>>
  /\ stderr = <<>>
  /\ responded = FALSE
  /\ replies = <<>>
  /\ exitCode = "none"
  /\ timedOut = "no"
  /\ socketDestroyed = FALSE
  /\ authLaunched = FALSE
  /\ authBrowserProcess = "null"
  /\ authRunning = 0
  /\ authPending = 0
  /\ served = 0
  /\ reqBody = ValidBody

NextOrchVars ==
  \/ \E k \in Kinds : StartRequest(k)
  \/ \E line \in Lines : ChildStdout(line)
  \/ \E chunk \in StderrChunks : ChildStderr(chunk)
  \/ \E code \in {"0", "1", "null", "-2"} : ChildClose(code)
  \/ ChildError
  \/ RequestTimeout
  \/ LaunchAuthRoute
  \/ AuthBrowserClose
  \/ AuthBrowserLateEvent

-----------------------------------------------------------------------------
(* scripts/browser-manager.mjs : checkGoogleSession *)

\* page.url() values, token by token
Urls ==
  { <<"https://", "www.google.com", "/maps/d/edit">>,
    <<"https://", "accounts.google.com", "/v3", "/signin", "/identifier">>,
    <<"https://", "ACCOUNTS.GOOGLE.COM", "/ServiceLogin">>,
    <<"https://", "www.google.com", "/CheckCookie">>,
    <<"https://", "myaccount.example", "/challenge", "/pwd">> }

\* what checkGoogleSession observes of a page
Snapshots ==
  [ url          : Urls,
    loginFields  : BOOLEAN,    \* loginFields.count() > 0
    signInLink   : BOOLEAN,    \* hasSignInLink
    createMap    : BOOLEAN,    \* hasCreateMap
    addLayer     : BOOLEAN,    \* hasAddLayer
    mapTitle     : BOOLEAN ]   \* hasMapTitle

\* /(accounts\.google\.com|\/signin|\/ServiceLogin|\/challenge|\/CheckCookie|\/accountchooser)/i
authUrlPattern(currentUrl) ==
  LET lower == toLowerCase(currentUrl)
  IN  \E alt \in { "accounts.google.com", "/signin", "/servicelogin",
                   "/challenge", "/checkcookie", "/accountchooser" } :
         includes(lower, <<alt>>)

\* mutant: visible application markers are trusted before the url is looked at
checkGoogleSessionMarkersFirst(page) ==
  IF page.createMap \/ page.addLayer \/ page.mapTitle THEN ~page.loginFields
  ELSE IF authUrlPattern(page.url) THEN FALSE
  ELSE IF page.loginFields THEN FALSE
  ELSE ~page.signInLink

\* mutant: a sign-in link alone is taken as conclusive
checkGoogleSessionSignInLinkAlone(page) ==
  IF authUrlPattern(page.url) THEN FALSE
  ELSE IF page.loginFields THEN FALSE
  ELSE ~page.signInLink

checkGoogleSession(page) ==
  IF authUrlPattern(page.url) THEN FALSE
  ELSE IF page.loginFields THEN FALSE
  ELSE LET hasMyMapsUi == page.createMap \/ page.addLayer \/ page.mapTitle
       IN  IF page.signInLink /\ ~hasMyMapsUi THEN FALSE ELSE TRUE

-----------------------------------------------------------------------------
(* scripts/import-to-mymaps.mjs : main, doImport, waitForMapsUI,           *)
(* waitForImportComplete                                                   *)

MAX_RETRIES == 2    \* parseInt(process.env.MYMAPS_IMPORT_RETRIES || '2', 10)
MaxPolls == 2       \* waitForMapsUI loop iterations that fit in its timeout
MaxSettlePolls == 2 \* waitForImportComplete loop iterations that fit in its timeout
MaxFrames == 1      \* frames of the page besides the main document

\* errors browser.getPage() may reject with (a failed launch)
LaunchErrorMsgs ==
  { <<"Failed", "to", "create", "a", "ProcessSingleton", "for", "your", "profile">>,
    <<"Executable", "doesn't", "exist">> }

NoSnapshot ==
  [url |-> <<>>, loginFields |-> FALSE, signInLink |-> FALSE, createMap |-> FALSE,
   addLayer |-> FALSE, mapTitle |-> FALSE]

\* what one iteration of waitForImportComplete can see of the page
SettleObservations ==
  [ fileInput : BOOLEAN,    \* input[type="file"] is visible
    dialog    : BOOLEAN,    \* the import dialog is visible
    error     : BOOLEAN ]   \* text matching /error|failed|invalid/i is visible

NoObservation == [fileInput |-> FALSE, dialog |-> FALSE, error |-> FALSE]

\* an error escapes doImport (or getPage) into main's catch block
Throw(e) ==
  /\ err' = e
  /\ lastFailure' = e
  /\ failed' = failed + 1
  /\ ipc' = "catch"

\* mutant: the phrases are spelled with capitals the thrown message lacks
isSessionErrorCapitalised(message) ==
  \/ includes(message, <<"Session", "expired">>)
  \/ includes(message, <<"Sign", "in", "required">>)

\* main, line 492: err.message.includes('session expired') ||
\*                 err.message.includes('sign in required')
isSessionError(message) ==
  \/ includes(message, <<"session", "expired">>)
  \/ includes(message, <<"sign", "in", "required">>)

\* mutant: the loop stops one attempt early
loopContinuesOffByOne(n) == n <= MAX_RETRIES

\* main: the loop condition   attempt <= MAX_RETRIES + 1
loopContinues(n) == n <= MAX_RETRIES + 1

\* mutant: the handle is cleared inside the try block, after context.close()
closeBrowserKeepsHandle(bc) == bc

\* browser-manager closeBrowser: pages and context are closed (errors are
\* logged and swallowed), then   browserContext = null
closeBrowser(bc) == "null"

\* browser-manager forceCleanup:   browserContext = null   (then the lock
\* artifacts are removed and matching browser processes killed)
forceCleanup(bc) == "null"

\* mutant: no cleanup between attempts
cleansUpNever(n) == FALSE

\* main, line 498: the catch block cleans up when   attempt < MAX_RETRIES + 1
cleansUp(n) == n < MAX_RETRIES + 1

\* mutant: doImport goes on whether or not a click method worked
addedLayerAlways(method) == TRUE

\* doImport: let addedLayer = false; set by the first of the four click
\* methods that works (method = 0: none of them did)
addedLayer(method) == method \in 1..4

\* process.argv[2] ("" when it is missing) with kmlPath present or not
ImportArgvs == [mid : {"", "A"}, kml : BOOLEAN]

ValidArgs == [mid |-> "A", kml |-> TRUE]

\* the module's first statements: if (!mid) exit(1); if (!fs.existsSync(kmlPath))
\* exit(1); main() is called when both pass
ImportValidate ==
  /\ ipc = "validate"
  /\ IF importArgs.mid = "" \/ ~importArgs.kml
     THEN /\ exitStatus' = "1"
          /\ ipc' = "exited"
     ELSE /\ ipc' = "getPage"
          /\ UNCHANGED exitStatus
  /\ UNCHANGED <<attempt, lastError, err, browserContext, snapshot, probe, polls, thrown,
                 started, expiredAt, lastFailure, failed, phases, impAux>>
  /\ UNCHANGED <<layerName, importArgs, impSteps, orchVars, sessVars, createVars, listVars, otherVars>>

\* main: page = await browser.getPage(); await dismissChromeDialogs(page)
\* getBrowser returns the live context if there is one, else launches
MainGetPage ==
  /\ ipc = "getPage"
  /\ started' = started + 1
  /\ IF browserContext = "open"
     THEN /\ pageSessions' = Append(pageSessions, sessionId)
          /\ phases' = <<"Navigating">>
          /\ ipc' = "navigate"
          /\ UNCHANGED <<browserContext, sessionId, err, lastFailure, failed>>
     ELSE \/ /\ browserContext' = "open"
             /\ sessionId' = sessionId + 1
             /\ pageSessions' = Append(pageSessions, sessionId + 1)
             /\ phases' = <<"Navigating">>
             /\ ipc' = "navigate"
             /\ UNCHANGED <<err, lastFailure, failed>>
          \/ /\ \E e \in LaunchErrorMsgs : Throw(e)
             /\ phases' = <<>>
             /\ UNCHANGED <<browserContext, sessionId, pageSessions>>
  /\ clicked' = FALSE
  /\ settled' = "none"
  /\ settlePolls' = 0
  /\ settleObs' = NoObservation
  /\ importClicks' = 0
  /\ fileSetBy' = 0
  /\ fileSkipped' = FALSE
  /\ UNCHANGED <<attempt, lastError, snapshot, probe, polls, exitStatus, thrown,
                 expiredAt, out, layers, cleaned>>
  /\ UNCHANGED <<layerName, importArgs, orchVars, sessVars, createVars, listVars, otherVars>>

\* doImport step 1-2: page.goto(editUrl), dismissChromeDialogs twice
DoImportNavigate ==
  /\ ipc = "navigate"
  /\ probe' = "none"
  /\ \/ /\ \E s \in Snapshots : snapshot' = s
        /\ ipc' = "checkSession"
        /\ phases' = Append(phases, "AuthChecking")
        /\ UNCHANGED <<err, lastFailure, failed>>
     \/ /\ Throw(<<"page.goto", ":">> \o TimeoutMsg)
        /\ UNCHANGED <<snapshot, phases>>
  /\ UNCHANGED <<attempt, lastError, browserContext, polls, exitStatus, thrown,
                 started, expiredAt>>
  /\ UNCHANGED impAux
  /\ UNCHANGED <<layerName, importArgs, impSteps, orchVars, sessVars, createVars, listVars, otherVars>>

\* doImport step 3: if (!await browser.checkGoogleSession(page)) throw ...
DoImportCheckSession ==
  /\ ipc = "checkSession"
  /\ IF checkGoogleSession(snapshot)
     THEN /\ probe' = "valid"
          /\ ipc' = "waitForMapsUI"
          /\ polls' = 0
          /\ UNCHANGED <<err, lastFailure, failed, expiredAt>>
     ELSE /\ probe' = "invalid"
          /\ Throw(SessionExpiredMsg)
          /\ expiredAt' = attempt
          /\ UNCHANGED polls
  /\ UNCHANGED <<attempt, lastError, browserContext, snapshot, exitStatus, thrown, started>>
  /\ UNCHANGED <<phases, impAux>>
  /\ UNCHANGED <<layerName, importArgs, impSteps, orchVars, sessVars, createVars, listVars, otherVars>>

\* waitForMapsUI: one iteration of the while loop.  The page is observed anew;
\* an exact, visible 'Add layer' text implies the /add layer/i marker.
WaitForMapsUIPoll ==
  /\ ipc = "waitForMapsUI"
  /\ polls < MaxPolls
  /\ \E s \in Snapshots, addLayerVisible \in BOOLEAN :
       /\ addLayerVisible => s.addLayer
       /\ snapshot' = s
       /\ IF addLayerVisible
          THEN /\ ipc' = "uiReady"
               /\ probe' = "none"
               /\ phases' = Append(phases, "UIReady")
               /\ UNCHANGED <<err, lastFailure, failed, expiredAt, polls>>
          ELSE IF ~checkGoogleSession(s)
          THEN /\ probe' = "invalid"
               /\ Throw(SessionExpiredMsg)
               /\ expiredAt' = attempt
               /\ UNCHANGED <<polls, phases>>
          ELSE /\ probe' = "valid"
               /\ polls' = polls + 1
               /\ UNCHANGED <<ipc, err, lastFailure, failed, expiredAt, phases>>
  /\ UNCHANGED <<attempt, lastError, browserContext, exitStatus, thrown, started>>
  /\ UNCHANGED impAux
  /\ UNCHANGED <<layerName, importArgs, impSteps, orchVars, sessVars, createVars, listVars, otherVars>>

\* waitForMapsUI returns false when its timeout has passed; doImport throws
WaitForMapsUITimeout ==
  /\ ipc = "waitForMapsUI"
  /\ polls = MaxPolls
  /\ Throw(UiNotReadyMsg)
  /\ UNCHANGED <<attempt, lastError, browserContext, snapshot, probe, polls,
                 exitStatus, thrown, started, expiredAt>>
  /\ UNCHANGED <<phases, impAux>>
  /\ UNCHANGED <<layerName, importArgs, impSteps, orchVars, sessVars, createVars, listVars, otherVars>>

\* the strategies i..n of a step, tried in their order until one works: the
\* number of the one that worked, 0 when none did
RECURSIVE tryFrom(_, _, _)
tryFrom(i, n, works) ==
  IF i > n THEN 0
  ELSE IF i \in works THEN i
  ELSE tryFrom(i + 1, n, works)

\* the subsets of 1..n with two elements at most
UpToTwo(n) == { {i, j} : i \in 1..n, j \in 1..n } \cup {{}}

\* doImport: 'UI ready', then the sidebar is scrolled so that 'Add layer' is in
\* view (errors are swallowed)
DoImportScrollSidebar ==
  /\ ipc = "uiReady"
  /\ ipc' = "addLayer"
  /\ phases' = Append(phases, "AddingLayer")
  /\ UNCHANGED <<attempt, lastError, err, browserContext, snapshot, probe, polls,
                 exitStatus, thrown, started, expiredAt, lastFailure, failed>>
  /\ UNCHANGED impAux
  /\ UNCHANGED <<layerName, importArgs, impSteps, orchVars, sessVars, createVars, listVars, otherVars>>

\* doImport: the four 'Add layer' click methods.  A click that works makes
\* the map editor create a new layer at once.
DoImportAddLayer ==
  /\ ipc = "addLayer"
  /\ \E works \in SUBSET (1..4) :
     LET method == tryFrom(1, 4, works)
     IN
       /\ clicked' = (method \in 1..4)
       /\ layers' = IF method \in 1..4 THEN layers + 1 ELSE layers
       /\ IF addedLayer(method)
          THEN /\ ipc' = "clickImport"
               /\ phases' = Append(phases, "OpeningImportDialog")
               /\ UNCHANGED <<err, lastFailure, failed>>
          ELSE /\ Throw(AddLayerMsg)
               /\ UNCHANGED phases
  /\ UNCHANGED <<attempt, lastError, browserContext, snapshot, probe, polls,
                 exitStatus, thrown, started, expiredAt>>
  /\ UNCHANGED <<out, settled, settlePolls, settleObs, sessionId, pageSessions, cleaned>>
  /\ UNCHANGED <<layerName, importArgs, impSteps, orchVars, sessVars, createVars, listVars, otherVars>>

\* tryClickImport: the number of candidates tried in each scope
NSelectors == 7

\* clickImportButton: tryClickImport(page), then tryClickImport(frame) for each
\* frame that is not the main frame; candidate c of scope s is strategy
\* s * NSelectors + c
clickImportButton(works) == tryFrom(1, NSelectors * (1 + MaxFrames), works) # 0

\* doImport step 6-7: clickImportButton; then the wait for the dialog content
\* and, when the dialog stays blank, Escape and one more click on 'Import',
\* whose error is swallowed
DoImportClickImport ==
  /\ ipc = "clickImport"
  /\ \E works \in UpToTwo(NSelectors * (1 + MaxFrames)) :
       IF clickImportButton(works)
       THEN /\ \E dialogLoaded \in BOOLEAN, retryClicked \in BOOLEAN :
                 importClicks' = (IF ~dialogLoaded /\ retryClicked THEN 2 ELSE 1)
            /\ ipc' = "setFile"
            /\ phases' = Append(phases, "SettingFile")
            /\ UNCHANGED <<err, lastFailure, failed>>
       ELSE /\ Throw(ImportButtonMsg)
            /\ UNCHANGED <<phases, importClicks>>
  /\ UNCHANGED <<attempt, lastError, browserContext, snapshot, probe, polls,
                 exitStatus, thrown, started, expiredAt>>
  /\ UNCHANGED <<impAux, fileSetBy, fileSkipped>>
  /\ UNCHANGED <<layerName, importArgs, orchVars, sessVars, createVars, listVars, otherVars>>

\* setFileInput(page, kmlPath): the file input of the main document
\* (strategy 1), then the file input of each frame (strategies 2..1+MaxFrames)
setFileInput(works) == tryFrom(1, 1 + MaxFrames, works)

\* the file chooser fallback, strategy 2+MaxFrames
FileChooser == 2 + MaxFrames

\* mutant: the file chooser is used whether or not setFileInput worked
usesFileChooserAlways(fileSet) == TRUE

\* doImport, line 429: if (!fileSet) { ... the file chooser ... }
usesFileChooser(fileSet) == fileSet = 0

\* doImport: setFileInput, then the file chooser fallback, which throws
\* 'Could not set file for import: ...' when it fails too
DoImportSetFile ==
  /\ ipc = "setFile"
  /\ \E works \in SUBSET (1..FileChooser) :
       LET fileSet == setFileInput(works)
           by      == IF usesFileChooser(fileSet)
                      THEN (IF FileChooser \in works THEN FileChooser ELSE 0)
                      ELSE fileSet
       IN  /\ fileSetBy' = by
           /\ fileSkipped' = (by # 0 /\ works \cap 1..(by - 1) # {})
           /\ IF usesFileChooser(fileSet) /\ FileChooser \notin works
              THEN /\ Throw(SetFileMsg)
                   /\ UNCHANGED phases
              ELSE /\ ipc' = "confirm"
                   /\ phases' = Append(phases, "Confirming")
                   /\ UNCHANGED <<err, lastFailure, failed>>
  /\ UNCHANGED <<attempt, lastError, browserContext, snapshot, probe, polls,
                 exitStatus, thrown, started, expiredAt>>
  /\ UNCHANGED <<impAux, importClicks>>
  /\ UNCHANGED <<layerName, importArgs, orchVars, sessVars, createVars, listVars, otherVars>>

\* doImport: the two confirmation clicks; their errors are swallowed
DoImportConfirm ==
  /\ ipc = "confirm"
  /\ ipc' = "settling"
  /\ phases' = Append(phases, "Settling")
  /\ UNCHANGED <<attempt, lastError, err, browserContext, snapshot, probe, polls,
                 exitStatus, thrown, started, expiredAt, lastFailure, failed>>
  /\ UNCHANGED impAux
  /\ UNCHANGED <<layerName, importArgs, impSteps, orchVars, sessVars, createVars, listVars, otherVars>>

\* waitForImportComplete: one iteration of the while loop
WaitForImportCompletePoll ==
  /\ ipc = "settling"
  /\ settled = "none"
  /\ settlePolls < MaxSettlePolls
  /\ \E o \in SettleObservations :
       /\ settleObs' = o
       /\ IF ~o.fileInput /\ ~o.dialog
          THEN /\ settled' = "true"
               /\ UNCHANGED <<ipc, err, lastFailure, failed, settlePolls>>
          ELSE IF o.error
          THEN /\ Throw(ImportShownErrorMsg)
               /\ UNCHANGED <<settled, settlePolls>>
          ELSE /\ settlePolls' = settlePolls + 1
               /\ UNCHANGED <<ipc, err, lastFailure, failed, settled>>
  /\ UNCHANGED <<attempt, lastError, browserContext, snapshot, probe, polls,
                 exitStatus, thrown, started, expiredAt, phases>>
  /\ UNCHANGED <<out, layers, clicked, sessionId, pageSessions, cleaned>>
  /\ UNCHANGED <<layerName, importArgs, impSteps, orchVars, sessVars, createVars, listVars, otherVars>>

\* waitForImportComplete: the timeout has passed, return false
WaitForImportCompleteTimeout ==
  /\ ipc = "settling"
  /\ settled = "none"
  /\ settlePolls = MaxSettlePolls
  /\ settled' = "false"
  /\ UNCHANGED <<ipc, attempt, lastError, err, browserContext, snapshot, probe, polls,
                 exitStatus, thrown, started, expiredAt, lastFailure, failed, phases>>
  /\ UNCHANGED <<out, layers, clicked, settlePolls, settleObs, sessionId,
                 pageSessions, cleaned>>
  /\ UNCHANGED <<layerName, importArgs, impSteps, orchVars, sessVars, createVars, listVars, otherVars>>

\* doImport: the value waitForImportComplete returned is dropped; then
\* page.waitForTimeout(IMPORT_SETTLE_MS) and the 'Successfully imported' log
DoImportSettle ==
  /\ ipc = "settling"
  /\ settled # "none"
  /\ ipc' = "success"
  /\ UNCHANGED <<attempt, lastError, err, browserContext, snapshot, probe, polls,
                 exitStatus, thrown, started, expiredAt, lastFailure, failed, phases>>
  /\ UNCHANGED impAux
  /\ UNCHANGED <<layerName, importArgs, impSteps, orchVars, sessVars, createVars, listVars, otherVars>>

\* main: after doImport returned: await browser.closeBrowser(); return
MainSuccess ==
  /\ ipc = "success"
  /\ browserContext' = closeBrowser(browserContext)
  /\ exitStatus' = "0"
  /\ ipc' = "exited"
  /\ UNCHANGED <<attempt, lastError, err, snapshot, probe, polls, thrown, started,
                 expiredAt, lastFailure, failed, phases>>
  /\ UNCHANGED impAux
  /\ UNCHANGED <<layerName, importArgs, impSteps, orchVars, sessVars, createVars, listVars, otherVars>>

\* main: the catch block, and what follows it: the next iteration (after
\* closeBrowser and forceCleanup), or the end of the loop (closeBrowser,
\* throw lastError) and main().catch -> exit(1)
MainCatch ==
  /\ ipc = "catch"
  /\ lastError' = err
  /\ IF isSessionError(err)
     THEN /\ browserContext' = closeBrowser(browserContext)
          /\ thrown' = err
          /\ exitStatus' = "1"
          /\ ipc' = "exited"
          /\ UNCHANGED <<attempt, cleaned>>
     ELSE LET retried == IF cleansUp(attempt)
                         THEN forceCleanup(closeBrowser(browserContext))
                         ELSE browserContext
          IN  /\ attempt' = attempt + 1
              /\ cleaned' = IF cleansUp(attempt) THEN cleaned + 1 ELSE cleaned
              /\ IF loopContinues(attempt + 1)
                 THEN /\ browserContext' = retried
                      /\ ipc' = "getPage"
                      /\ UNCHANGED <<thrown, exitStatus>>
                 ELSE /\ browserContext' = closeBrowser(retried)
                      /\ thrown' = err
                      /\ exitStatus' = "1"
                      /\ ipc' = "exited"
  /\ UNCHANGED <<err, snapshot, probe, polls, started, expiredAt, lastFailure, failed,
                 phases>>
  /\ UNCHANGED <<out, layers, clicked, settled, settlePolls, settleObs, sessionId,
                 pageSessions>>
  /\ UNCHANGED <<layerName, importArgs, impSteps, orchVars, sessVars, createVars, listVars, otherVars>>

\* process.argv[4] as the server passes it: layerName || ''
LayerNames == {"", "L"}

InitImportVars ==
  /\ ipc \in {"validate", "getPage"}
  /\ importArgs \in ImportArgvs
  /\ importClicks = 0
  /\ fileSetBy = 0
  /\ fileSkipped = FALSE
  /\ layerName \in LayerNames
  /\ attempt = 1
  /\ lastError = <<>>
  /\ err = <<>>
  /\ browserContext = "null"
  /\ snapshot = NoSnapshot
  /\ probe = "none"
  /\ polls = 0
  /\ exitStatus = "none"
  /\ thrown = <<>>
  /\ started = 0
  /\ expiredAt = 0
  /\ lastFailure = <<>>
  /\ failed = 0
  /\ phases = <<>>
  /\ out = <<>>
  /\ layers = 0
  /\ clicked = FALSE
  /\ settled = "none"
  /\ settlePolls = 0
  /\ settleObs = NoObservation
  /\ sessionId = 0
  /\ pageSessions = <<>>
  /\ cleaned = 0

NextImportVars ==
  \/ MainGetPage
  \/ DoImportNavigate
  \/ DoImportCheckSession
  \/ WaitForMapsUIPoll
  \/ WaitForMapsUITimeout
  \/ DoImportScrollSidebar
  \/ DoImportAddLayer
  \/ DoImportClickImport
  \/ DoImportSetFile
  \/ DoImportConfirm
  \/ WaitForImportCompletePoll
  \/ WaitForImportCompleteTimeout
  \/ DoImportSettle
  \/ MainSuccess
  \/ MainCatch

-----------------------------------------------------------------------------
(* scripts/browser-manager.mjs : cleanupBrowserProcesses, getBrowser,       *)
(* launchPersistentContextWithFallback, closeBrowser, run by NProcs         *)
(* workflow processes that share one profile directory.  A launch on the   *)
(* profile succeeds only while the lock artifacts are absent.              *)

NProcs == 2          \* workflow processes running concurrently
MaxRuns == 2         \* workflow runs per process (each a fresh OS process)
LAUNCH_RETRIES == 3  \* parseInt(process.env.BROWSER_LAUNCH_RETRIES || '3', 10)
MaxPages == 2        \* pages a context can have open
MaxOrphans == 1      \* contexts of one process left running without a handle

Procs == 1..NProcs

Max(a, b) == IF a >= b THEN a ELSE b

\* const maxAttempts = Math.max(1, LAUNCH_RETRIES + 1)
maxAttempts == Max(1, LAUNCH_RETRIES + 1)

\* what chromium.launchPersistentContext rejects with when the profile is locked
LockErrorMsgs ==
  { <<"Failed", "to", "create", "a", "ProcessSingleton", "for", "your", "profile",
      "directory">>,
    <<"The", "profile", "directory", "is", "already", "in", "use">>,
    <<"user", "data", "directory", "is", "already", "in", "use">> }

\* ... and for any other reason (the browser of that configuration is missing)
OtherErrorMsgs == { <<"Executable", "doesn't", "exist">> }

\* mutant: the 'user data directory is already in use' wording is not recognised
isProcessSingletonErrorTwoPhrases(msg) ==
  \/ includes(msg, <<"ProcessSingleton">>)
  \/ includes(msg, <<"profile", "directory", "is", "already", "in", "use">>)

isProcessSingletonError(msg) ==
  \/ includes(msg, <<"ProcessSingleton">>)
  \/ includes(msg, <<"profile", "directory", "is", "already", "in", "use">>)
  \/ includes(msg, <<"user", "data", "directory", "is", "already", "in", "use">>)

\* mutant: every launch error is retried while attempts are left
retriesAnyError(e, n) == n < maxAttempts

\* getBrowser, line 148: isProcessSingletonError(e) && attempt < maxAttempts
retries(e, n) == isProcessSingletonError(e) /\ n < maxAttempts

\* errors one launchPersistentContext call can reject with, given the lock
LaunchErrors == IF lockFile # 0 THEN LockErrorMsgs \cup OtherErrorMsgs ELSE OtherErrorMsgs

\* getBrowser or getPage has returned to, or thrown to, its caller
Called(p) == spc[p] \in {"returned", "thrown", "pageThrown"}

\* getBrowser up to the first cleanup: reuse the context (browserContext.pages()
\* does not throw), or start a launch
GetBrowserEnter(p) ==
  /\ spc[p] = "start"
  /\ IF ctx[p] = "set"
     THEN spc' = [spc EXCEPT ![p] = "returned"]
     ELSE spc' = [spc EXCEPT ![p] = "preUnlink"]
  /\ launchAttempt' = [launchAttempt EXCEPT ![p] = 1]
  /\ gbError' = [gbError EXCEPT ![p] = <<>>]
  /\ fails' = [fails EXCEPT ![p] = 0]
  /\ lockFails' = [lockFails EXCEPT ![p] = 0]
  /\ metLock' = [metLock EXCEPT ![p] = FALSE]
  /\ UNCHANGED <<runs, pkillMatches, lockFile, live, ctx, pages, closeLog, orphaned>>
  /\ UNCHANGED <<orchVars, impVars, createVars, listVars, otherVars>>

\* getPage after getBrowser returned: context.pages()[0], or context.newPage()
\* when there is none (which a context whose browser is gone rejects)
GetPage(p) ==
  /\ spc[p] = "returned"
  /\ ctx[p] = "set"
  /\ IF pages[p] = 0
     THEN IF p \in live
          THEN /\ pages' = [pages EXCEPT ![p] = 1]
               /\ UNCHANGED spc
          ELSE /\ spc' = [spc EXCEPT ![p] = "pageThrown"]
               /\ UNCHANGED pages
     ELSE UNCHANGED <<spc, pages>>
  /\ UNCHANGED <<runs, pkillMatches, lockFile, live, launchAttempt, ctx, gbError, fails,
                 lockFails, metLock, closeLog, orphaned>>
  /\ UNCHANGED <<orchVars, impVars, createVars, listVars, otherVars>>

\* where a process goes after the two halves of cleanupBrowserProcesses
afterUnlink(pc) ==
  CASE pc = "preUnlink"   -> "prePkill"
    [] pc = "retryUnlink" -> "retryPkill"
    [] pc = "closeUnlink" -> "closePkill"

afterPkill(pc) ==
  CASE pc = "prePkill"   -> "launch1"
    [] pc = "retryPkill" -> "launch1"
    [] pc = "closePkill" -> "done"
    [] pc = "forcePkill" -> "start"

\* cleanupBrowserProcesses, first half: unlink SingletonLock, SingletonCookie,
\* SingletonSocket
CleanupUnlink(p) ==
  /\ spc[p] \in {"preUnlink", "retryUnlink", "closeUnlink"}
  /\ lockFile' = 0
  /\ spc' = [spc EXCEPT ![p] = afterUnlink(spc[p])]
  /\ closeLog' = [closeLog EXCEPT ![p] = <<>>]
  /\ UNCHANGED <<runs, pkillMatches, live, launchAttempt, ctx, gbError, fails, lockFails,
                 metLock, pages, orphaned>>
  /\ UNCHANGED <<orchVars, impVars, createVars, listVars, otherVars>>

\* cleanupBrowserProcesses, second half: pkill -9 -f "chrom(ium|e).*playwright-
\* my-maps-profile"; on the retry path the delay and attempt++ follow
CleanupPkill(p) ==
  /\ spc[p] \in {"prePkill", "retryPkill", "closePkill", "forcePkill"}
  /\ live' = (IF pkillMatches THEN {} ELSE live)
  /\ orphaned' = (IF pkillMatches THEN [q \in Procs |-> 0] ELSE orphaned)
  /\ spc' = [spc EXCEPT ![p] = afterPkill(spc[p])]
  /\ launchAttempt' = [launchAttempt EXCEPT ![p] =
                         IF spc[p] = "retryPkill" THEN @ + 1 ELSE @]
  /\ metLock' = [metLock EXCEPT ![p] = IF spc[p] = "retryPkill" THEN FALSE ELSE @]
  /\ UNCHANGED <<runs, pkillMatches, lockFile, ctx, gbError, fails, lockFails, pages,
                 closeLog>>
  /\ UNCHANGED <<orchVars, impVars, createVars, listVars, otherVars>>

\* a successful chromium.launchPersistentContext: the browser runs on the
\* profile and has made its lock artifacts; getBrowser returns the context,
\* which has the page the browser opened with
Launched(p) ==
  /\ lockFile = 0
  /\ lockFile' = p
  /\ live' = live \cup {p}
  /\ ctx' = [ctx EXCEPT ![p] = "set"]
  /\ spc' = [spc EXCEPT ![p] = "returned"]
  /\ pages' = [pages EXCEPT ![p] = 1]
  /\ UNCHANGED <<runs, pkillMatches, launchAttempt, gbError, fails, lockFails, metLock,
                 closeLog, orphaned>>

\* launchPersistentContextWithFallback: the preferred configuration
\* (channel: 'chrome'); its error is discarded by catch (_)
LaunchPreferred(p) ==
  /\ spc[p] = "launch1"
  /\ \/ Launched(p)
     \/ \E e \in LaunchErrors :
          /\ metLock' = [metLock EXCEPT ![p] = e \in LockErrorMsgs]
          /\ spc' = [spc EXCEPT ![p] = "launch2"]
          /\ UNCHANGED <<runs, pkillMatches, lockFile, live, launchAttempt, ctx, gbError,
                         fails, lockFails, pages, closeLog, orphaned>>
  /\ UNCHANGED <<orchVars, impVars, createVars, listVars, otherVars>>

\* launchPersistentContextWithFallback: the bundled browser; its error reaches
\* getBrowser's catch block, which retries or throws
LaunchFallback(p) ==
  /\ spc[p] = "launch2"
  /\ \/ Launched(p)
     \/ \E e \in LaunchErrors :
          /\ metLock' = [metLock EXCEPT ![p] = @ \/ e \in LockErrorMsgs]
          /\ fails' = [fails EXCEPT ![p] = @ + 1]
          /\ lockFails' = [lockFails EXCEPT ![p] =
                             IF e \in LockErrorMsgs THEN @ + 1 ELSE @]
          /\ IF retries(e, launchAttempt[p])
             THEN /\ spc' = [spc EXCEPT ![p] = "retryUnlink"]
                  /\ UNCHANGED gbError
             ELSE /\ spc' = [spc EXCEPT ![p] = "thrown"]
                  /\ gbError' = [gbError EXCEPT ![p] = e]
          /\ UNCHANGED <<runs, pkillMatches, lockFile, live, launchAttempt, ctx, pages,
                         closeLog, orphaned>>
  /\ UNCHANGED <<orchVars, impVars, createVars, listVars, otherVars>>

\* closeBrowser's try block on a context with n pages: page.close() for each
\* page (its error discarded), the delay, browserContext.close(); what the
\* catch block writes when that rejected
closeSteps(n, rejected) ==
  [i \in 1..n |-> "page.close"] \o <<"context.close">> \o
  (IF rejected THEN <<"Error closing browser">> ELSE <<>>)

\* closeBrowser, first half: close the pages and the context when there is a
\* handle, then browserContext = null.  A browser that shuts down removes its
\* own lock artifacts; closing a context whose browser is gone may reject.
closeBrowserTry(p) ==
  /\ Called(p)
  /\ IF ctx[p] = "set" /\ p \in live
     THEN /\ live' = (IF orphaned[p] = 0 THEN live \ {p} ELSE live)
          /\ lockFile' = (IF lockFile = p THEN 0 ELSE lockFile)
     ELSE UNCHANGED <<live, lockFile>>
  /\ ctx' = [ctx EXCEPT ![p] = closeBrowser(@)]
  /\ pages' = [pages EXCEPT ![p] = 0]
  /\ spc' = [spc EXCEPT ![p] = "closeUnlink"]
  /\ gbError' = [gbError EXCEPT ![p] = <<>>]
  /\ fails' = [fails EXCEPT ![p] = 0]
  /\ lockFails' = [lockFails EXCEPT ![p] = 0]
  /\ metLock' = [metLock EXCEPT ![p] = FALSE]
  /\ UNCHANGED <<runs, pkillMatches, launchAttempt, orphaned>>
  /\ UNCHANGED <<orchVars, impVars, createVars, listVars, otherVars>>

\* closeBrowser's first half as one step of a workflow process
CloseBrowserContext(p) == closeBrowserTry(p) /\ UNCHANGED closeLog

\* the same, with the calls the try block makes: only a context whose browser
\* is gone rejects context.close()
CloseBrowserTraced(p) ==
  /\ closeBrowserTry(p)
  /\ IF ctx[p] = "set"
     THEN \E rejected \in (IF p \in live THEN {FALSE} ELSE BOOLEAN) :
            closeLog' = [closeLog EXCEPT ![p] = closeSteps(pages[p], rejected)]
     ELSE closeLog' = [closeLog EXCEPT ![p] = <<>>]

\* forceCleanup: browserContext = null, then cleanupBrowserProcesses' unlinks
\* (its pkill is the next step); the context is not closed
ForceCleanup(p) ==
  /\ spc[p] = "start"
  /\ ctx[p] = "set" /\ p \in live => orphaned[p] < MaxOrphans
  /\ orphaned' = [orphaned EXCEPT ![p] = IF ctx[p] = "set" /\ p \in live THEN @ + 1 ELSE @]
  /\ ctx' = [ctx EXCEPT ![p] = forceCleanup(@)]
  /\ pages' = [pages EXCEPT ![p] = 0]
  /\ closeLog' = [closeLog EXCEPT ![p] = <<>>]
  /\ lockFile' = 0
  /\ spc' = [spc EXCEPT ![p] = "forcePkill"]
  /\ UNCHANGED <<runs, pkillMatches, live, launchAttempt, gbError, fails, lockFails, metLock>>
  /\ UNCHANGED <<orchVars, impVars, createVars, listVars, otherVars>>

\* the caller goes on after getBrowser or getPage returned or threw: its next
\* call is getBrowser / getPage or forceCleanup
Return(p) ==
  /\ Called(p)
  /\ spc' = [spc EXCEPT ![p] = "start"]
  /\ UNCHANGED <<runs, pkillMatches, lockFile, live, launchAttempt, ctx, gbError, fails,
                 lockFails, metLock, pages, closeLog, orphaned>>
  /\ UNCHANGED <<orchVars, impVars, createVars, listVars, otherVars>>

\* what happens to a context between two calls: pages open and close, or the
\* browser ends (a clean exit removes its lock artifacts, a crash leaves them;
\* pages() keeps its pages until their close events have arrived)
BrowserEvent(p) ==
  /\ spc[p] = "returned"
  /\ ctx[p] = "set"
  /\ p \in live
  /\ \/ /\ \E n \in 0..MaxPages : n # pages[p] /\ pages' = [pages EXCEPT ![p] = n]
        /\ UNCHANGED <<live, lockFile>>
     \/ /\ orphaned[p] = 0
        /\ live' = live \ {p}
        /\ pages' \in {pages, [pages EXCEPT ![p] = 0]}
        /\ lockFile' \in {lockFile, IF lockFile = p THEN 0 ELSE lockFile}
  /\ UNCHANGED <<runs, pkillMatches, spc, launchAttempt, ctx, gbError, fails, lockFails,
                 metLock, closeLog, orphaned>>
  /\ UNCHANGED <<orchVars, impVars, createVars, listVars, otherVars>>

\* the workflow process has ended, and with it the browsers it launched; the
\* next request spawns a new one
NextRun(p) ==
  /\ spc[p] = "done"
  /\ runs[p] < MaxRuns
  /\ runs' = [runs EXCEPT ![p] = @ + 1]
  /\ spc' = [spc EXCEPT ![p] = "start"]
  /\ live' = live \ {p}
  /\ orphaned' = [orphaned EXCEPT ![p] = 0]
  /\ UNCHANGED <<pkillMatches, lockFile, launchAttempt, ctx, gbError, fails,
                 lockFails, metLock, pages, closeLog>>
  /\ UNCHANGED <<orchVars, impVars, createVars, listVars, otherVars>>

InitSessionVars ==
  /\ pkillMatches \in BOOLEAN
  /\ lockFile = 0
  /\ live = {}
  /\ spc = [p \in Procs |-> "start"]
  /\ launchAttempt = [p \in Procs |-> 1]
  /\ ctx = [p \in Procs |-> "null"]
  /\ gbError = [p \in Procs |-> <<>>]
  /\ fails = [p \in Procs |-> 0]
  /\ lockFails = [p \in Procs |-> 0]
  /\ metLock = [p \in Procs |-> FALSE]
  /\ runs = [p \in Procs |-> 1]
  /\ pages = [p \in Procs |-> 0]
  /\ closeLog = [p \in Procs |-> <<>>]
  /\ orphaned = [p \in Procs |-> 0]

NextSessionVars ==
  \/ \E p \in Procs : GetBrowserEnter(p)
  \/ \E p \in Procs : CleanupUnlink(p)
  \/ \E p \in Procs : CleanupPkill(p)
  \/ \E p \in Procs : LaunchPreferred(p)
  \/ \E p \in Procs : LaunchFallback(p)
  \/ \E p \in Procs : CloseBrowserContext(p)
  \/ \E p \in Procs : NextRun(p)

\* one process and the calls it can make of the session manager, in any order
NextCallsVars ==
  \/ GetBrowserEnter(1)
  \/ CleanupUnlink(1)
  \/ CleanupPkill(1)
  \/ LaunchPreferred(1)
  \/ LaunchFallback(1)
  \/ GetPage(1)
  \/ Return(1)
  \/ BrowserEvent(1)
  \/ CloseBrowserTraced(1)
  \/ ForceCleanup(1)
  \/ NextRun(1)

-----------------------------------------------------------------------------
(* scripts/create-mymap.mjs : main *)

\* process.argv[2] as the server passes it ("" stands for a missing argument)
CreateArgs == {"", "T", "Untitled map"}

\* const mapName = process.argv[2] || 'Untitled map'
mapNameOf(arg) == IF arg = "" THEN "Untitled map" ELSE arg

\* page.url() once the editor of the new map is shown, and the home url
EditorUrls ==
  { <<"https://", "www.google.com", "/maps/d/", "edit", "?", "mid=", "M">>,
    <<"https://", "www.google.com", "/maps/d/", "u/0/edit", "?", "hl=en", "&",
      "mid=", "N", "&", "ll=0">>,
    <<"https://", "www.google.com", "/maps/d/", "edit", "#", "mid=", "M">>,
    <<"https://", "www.google.com", "/maps/d/", "edit", "?", "mid=", "&", "ll=0">>,
    <<"https://", "www.google.com", "/maps/d/", "u/0/">> }

\* page.waitForURL(/\/maps\/d\/.*mid=/)
editorUrlPattern(url) ==
  \E i, j \in 1..Len(url) : i < j /\ url[i] = "/maps/d/" /\ url[j] = "mid="

\* positions where /[?&]mid=([^&]+)/ matches: '?' or '&', then 'mid=', then a
\* value that is not empty (the next token is not '&')
midMatches(url) ==
  { i \in 1..(Len(url) - 2) :
      /\ url[i] \in {"?", "&"}
      /\ url[i + 1] = "mid="
      /\ url[i + 2] # "&" }

Min(S) == CHOOSE x \in S : \A y \in S : x <= y

\* mutant: 'mid=' is accepted wherever it stands in the url
midMatchAnywhere(url) ==
  LET at == { i \in 1..(Len(url) - 1) : url[i] = "mid=" /\ url[i + 1] # "&" }
  IN  IF at = {} THEN "" ELSE url[Min(at) + 1]

\* const midMatch = url.match(/[?&]mid=([^&]+)/); midMatch[1], "" for null
midMatch(url) ==
  IF midMatches(url) = {} THEN "" ELSE url[Min(midMatches(url)) + 2]

\* one member of an object, as JSON.stringify writes it
member(key, value) ==
  CASE key = "mid" /\ value = "M" -> "mid:M"
    [] key = "mid" /\ value = "N" -> "mid:N"
    [] key = "title" /\ value = "T" -> "title:T"
    [] key = "title" /\ value = "Untitled map" -> "title:Untitled map"
    [] OTHER -> "?"

\* JSON.stringify({ mid, title: mapName })
stringifyResult(mid, title) ==
  <<"{", member("mid", mid), ",", member("title", title), "}">>

\* how a sub-step that swallows its errors can go
SubStepOutcomes == {"ok", "failed", "timeout"}

\* an error escapes main: main().catch writes it to stderr, process.exit(1)
CreateFail(e) ==
  /\ cthrown' = e
  /\ cstderr' = Append(cstderr, <<"[create-mymap]", "Error", ":">> \o e)
  /\ cexit' = "1"
  /\ cpc' = "exited"

\* const page = await browser.getPage()
CreateGetPage ==
  /\ cpc = "getPage"
  /\ \/ /\ cpc' = "goto"
        /\ cbrowser' = "open"
        /\ UNCHANGED <<cthrown, cstderr, cexit>>
     \/ /\ \E e \in LaunchErrorMsgs : CreateFail(e)
        /\ UNCHANGED cbrowser
  /\ UNCHANGED <<cargv, cSnapshot, cprobe, curl, cmid, renameOutcome, shareOutcome,
                 cstdout, csteps>>
  /\ UNCHANGED <<orchVars, impVars, sessVars, listVars, otherVars>>

\* page.goto('https://www.google.com/maps/d/u/0/'), thinkDelay
CreateNavigate ==
  /\ cpc = "goto"
  /\ \/ /\ \E s \in Snapshots : cSnapshot' = s
        /\ cpc' = "checkSession"
        /\ UNCHANGED <<cthrown, cstderr, cexit>>
     \/ /\ CreateFail(<<"page.goto", ":">> \o TimeoutMsg)
        /\ UNCHANGED cSnapshot
  /\ UNCHANGED <<cbrowser, cargv, cprobe, curl, cmid, renameOutcome, shareOutcome, cstdout, csteps>>
  /\ UNCHANGED <<orchVars, impVars, sessVars, listVars, otherVars>>

\* if (!await browser.checkGoogleSession(page)) throw ...
CreateCheckSession ==
  /\ cpc = "checkSession"
  /\ IF checkGoogleSession(cSnapshot)
     THEN /\ cprobe' = "valid"
          /\ cpc' = "clickCreate"
          /\ UNCHANGED <<cthrown, cstderr, cexit>>
     ELSE /\ cprobe' = "invalid"
          /\ CreateFail(SessionExpiredMsg)
  /\ UNCHANGED <<cbrowser, cargv, cSnapshot, curl, cmid, renameOutcome, shareOutcome, cstdout,
                 csteps>>
  /\ UNCHANGED <<orchVars, impVars, sessVars, listVars, otherVars>>

\* the 'Create a new map' click (two locators), then the confirmation dialog,
\* whose errors are swallowed
CreateClickCreate ==
  /\ cpc = "clickCreate"
  /\ csteps' = csteps + 1
  /\ \/ /\ cpc' = "waitForURL"
        /\ UNCHANGED <<cthrown, cstderr, cexit>>
     \/ CreateFail(<<"locator.click", ":">> \o TimeoutMsg)
  /\ UNCHANGED <<cbrowser, cargv, cSnapshot, cprobe, curl, cmid, renameOutcome, shareOutcome,
                 cstdout>>
  /\ UNCHANGED <<orchVars, impVars, sessVars, listVars, otherVars>>

\* await page.waitForURL(/\/maps\/d\/.*mid=/, { timeout: 60000 }); page.url()
CreateWaitForURL ==
  /\ cpc = "waitForURL"
  /\ csteps' = csteps + 1
  /\ \/ /\ \E u \in EditorUrls :
             /\ editorUrlPattern(u)
             /\ curl' = u
        /\ cpc' = "extractMid"
        /\ UNCHANGED <<cthrown, cstderr, cexit>>
     \/ /\ CreateFail(<<"page.waitForURL", ":">> \o TimeoutMsg)
        /\ UNCHANGED curl
  /\ UNCHANGED <<cbrowser, cargv, cSnapshot, cprobe, cmid, renameOutcome, shareOutcome, cstdout>>
  /\ UNCHANGED <<orchVars, impVars, sessVars, listVars, otherVars>>

\* if (!midMatch) throw new Error('Could not find map ID in URL: ' + url)
CreateExtractMid ==
  /\ cpc = "extractMid"
  /\ IF midMatch(curl) = ""
     THEN /\ CreateFail(<<"Could", "not", "find", "map", "ID", "in", "URL", ":">> \o curl)
          /\ UNCHANGED cmid
     ELSE /\ cmid' = midMatch(curl)
          /\ cpc' = "rename"
          /\ UNCHANGED <<cthrown, cstderr, cexit>>
  /\ UNCHANGED <<cbrowser, cargv, cSnapshot, cprobe, curl, renameOutcome, shareOutcome, cstdout,
                 csteps>>
  /\ UNCHANGED <<orchVars, impVars, sessVars, listVars, otherVars>>

\* the rename, in a try block of its own; skipped for the default name
CreateRename ==
  /\ cpc = "rename"
  /\ cpc' = "share"
  /\ IF mapNameOf(cargv) # "Untitled map"
     THEN \E o \in SubStepOutcomes :
            /\ renameOutcome' = o
            /\ cstderr' = IF o = "ok" THEN cstderr
                          ELSE Append(cstderr, <<"[create-mymap]", "Could", "not",
                                                 "rename", "map", ":">> \o TimeoutMsg)
     ELSE /\ renameOutcome' = "skipped"
          /\ UNCHANGED cstderr
  /\ UNCHANGED <<cbrowser, cargv, cSnapshot, cprobe, curl, cmid, shareOutcome, cstdout, cexit,
                 cthrown, csteps>>
  /\ UNCHANGED <<orchVars, impVars, sessVars, listVars, otherVars>>

\* the share dialog, in a try block of its own
CreateShare ==
  /\ cpc = "share"
  /\ cpc' = "writeResult"
  /\ \E o \in SubStepOutcomes :
       /\ shareOutcome' = o
       /\ cstderr' = IF o = "ok"
                     THEN Append(cstderr, <<"[create-mymap]", "Share", "dialog", "closed">>)
                     ELSE Append(cstderr, <<"[create-mymap]", "Could", "not",
                                            "auto-share", "map", ":">> \o TimeoutMsg)
  /\ UNCHANGED <<cbrowser, cargv, cSnapshot, cprobe, curl, cmid, renameOutcome, cstdout, cexit,
                 cthrown, csteps>>
  /\ UNCHANGED <<orchVars, impVars, sessVars, listVars, otherVars>>

\* process.stdout.write(JSON.stringify({ mid, title: mapName }) + '\n');
\* main resolves, the browser is left open
CreateWriteResult ==
  /\ cpc = "writeResult"
  /\ cstdout' = Append(cstdout, stringifyResult(cmid, mapNameOf(cargv)))
  /\ cpc' = "resolved"
  /\ UNCHANGED <<cbrowser, cargv, cSnapshot, cprobe, curl, cmid, renameOutcome, shareOutcome,
                 cstderr, cexit, cthrown, csteps>>
  /\ UNCHANGED <<orchVars, impVars, sessVars, listVars, otherVars>>

\* main has resolved and nothing calls process.exit: the process ends with
\* code 0 once nothing keeps it running
CreateExit ==
  /\ cpc = "resolved"
  /\ cexit' = "0"
  /\ cpc' = "exited"
  /\ UNCHANGED <<cbrowser, cargv, cSnapshot, cprobe, curl, cmid, renameOutcome, shareOutcome,
                 cstdout, cstderr, cthrown, csteps>>
  /\ UNCHANGED <<orchVars, impVars, sessVars, listVars, otherVars>>

InitCreateVars ==
  /\ cpc = "getPage"
  /\ cbrowser = "null"
  /\ cargv \in CreateArgs
  /\ cSnapshot = NoSnapshot
  /\ cprobe = "none"
  /\ curl = <<>>
  /\ cmid = ""
  /\ renameOutcome = "none"
  /\ shareOutcome = "none"
  /\ cstdout = <<>>
  /\ cstderr = <<>>
  /\ cexit = "none"
  /\ cthrown = <<>>
  /\ csteps = 0

NextCreateVars ==
  \/ CreateGetPage
  \/ CreateNavigate
  \/ CreateCheckSession
  \/ CreateClickCreate
  \/ CreateWaitForURL
  \/ CreateExtractMid
  \/ CreateRename
  \/ CreateShare
  \/ CreateWriteResult
  \/ CreateExit

-----------------------------------------------------------------------------
(* scripts/list-mymaps.mjs : main.  Map identifiers are "A" and "B".        *)

MaxListPolls == 2    \* iterations of the poll loop (pollMax / pollMs)

MapIds == {"A", "B"}

\* the mid a response, a captured entry or a csv cell carries, as written (a
\* sequence of tokens, " " being whitespace; <<>> is a missing mid)
RawMids == {<<"A">>, <<"B">>, <<" ", "A">>, <<"B", " ">>, <<>>}

\* the hrefs of the anchors a frame holds, each given by the mid it carries
\* ("" when the href has none), in document order
Anchors ==
  {<<>>} \cup { <<a>> : a \in MapIds \cup {""} }
         \cup { <<a, b>> : a \in MapIds \cup {""}, b \in MapIds \cup {""} }

\* mapsFromNetwork and seenMid, which addMap updates together
Net(maps, seen) == [maps |-> maps, seenMid |-> seen]

\* mutant: the identifier is pushed without looking it up in seenMid
addMapUnchecked(net, mid) ==
  IF mid = <<>> THEN net
  ELSE LET s == Head(trim(mid))
       IN  Net(Append(net.maps, s), net.seenMid \cup {s})

\* addMap(mid, title): if (!mid) return; s = String(mid).trim();
\* if (seenMid.has(s)) return; seenMid.add(s); mapsFromNetwork.push({mid: s, ...})
addMap(net, mid) ==
  IF mid = <<>> THEN net
  ELSE LET s == Head(trim(mid))
       IN  IF s \in net.seenMid THEN net
           ELSE Net(Append(net.maps, s), net.seenMid \cup {s})

\* xs.forEach((x) => addMap(x.mid, x.title)) for the identifiers in S
addAll(net, S) ==
  LET withA == IF "A" \in S THEN addMap(net, <<"A">>) ELSE net
  IN  IF "B" \in S THEN addMap(withA, <<"B">>) ELSE withA

\* frameExtract(frame), inside the page: links.map(...).filter(Boolean) with
\* const seen = new Set(); an anchor without mid, or whose mid was seen, is dropped
RECURSIVE extractFrom(_, _)
extractFrom(links, seen) ==
  IF links = <<>> THEN <<>>
  ELSE IF Head(links) = "" \/ Head(links) \in seen
       THEN extractFrom(Tail(links), seen)
       ELSE <<Head(links)>> \o extractFrom(Tail(links), seen \cup {Head(links)})

frameExtract(links) == extractFrom(links, {})

\* elems joined by "," tokens
RECURSIVE commaSeparated(_)
commaSeparated(elems) ==
  IF elems = <<>> THEN <<>>
  ELSE IF Len(elems) = 1 THEN <<Head(elems)>>
  ELSE <<Head(elems), ",">> \o commaSeparated(Tail(elems))

\* JSON.stringify(maps): each map entry is written as its atom
stringifyMaps(maps) == <<"[">> \o commaSeparated(maps) \o <<"]">>

\* main().catch: the error goes to stderr, '[]' to stdout, process.exit(1)
ListFail ==
  /\ lstdout' = Append(lstdout, <<"[", "]">>)
  /\ lstderr' = Append(lstderr, <<"Error", ":">> \o TimeoutMsg)
  /\ lexit' = "1"
  /\ lpc' = "exited"

\* exitWithMaps(mapsToSend), and the last lines of main: one line on stdout,
\* context.close(), process.exit(0)
exitWithMaps(mapsToSend) ==
  /\ lstdout' = Append(lstdout, stringifyMaps(mapsToSend))
  /\ lresult' = mapsToSend
  /\ lexit' = "0"
  /\ lpc' = "exited"

\* chromium.launchPersistentContext (channel chrome, else bundled), the page,
\* the response listener and the init script
ListLaunch ==
  /\ lpc = "launch"
  /\ \/ /\ lpc' = "goto"
        /\ UNCHANGED <<lstdout, lstderr, lexit>>
     \/ ListFail
  /\ UNCHANGED <<lSnapshot, mapsFromNetwork, captured, fromNet, seenMid, lrepeated, fromHook, fromDom,
                 domRun, lresult, lpolls, lsteps>>
  /\ UNCHANGED <<orchVars, impVars, sessVars, createVars, otherVars>>

\* page.goto('https://www.google.com/maps/d/', ...)
ListNavigate ==
  /\ lpc = "goto"
  /\ \/ /\ \E s \in Snapshots : lSnapshot' = s
        /\ lpc' = "poll"
        /\ UNCHANGED <<lstdout, lstderr, lexit>>
     \/ /\ ListFail
        /\ UNCHANGED lSnapshot
  /\ UNCHANGED <<mapsFromNetwork, captured, fromNet, seenMid, lrepeated, fromHook, fromDom, domRun,
                 lresult, lpolls, lsteps>>
  /\ UNCHANGED <<orchVars, impVars, sessVars, createVars, otherVars>>

\* the page is open and main is at an await
PageOpen == lpc \in {"poll", "afterPoll", "readHook1", "secondGoto", "readHook2", "domScrape"}

\* page.on('response', ...): a JSON response is intercepted and the map
\* identifier found in it is added
ListResponse(mid) ==
  /\ PageOpen
  /\ LET net == addMap(Net(mapsFromNetwork, seenMid), mid)
     IN  /\ mapsFromNetwork' = net.maps
         /\ seenMid' = net.seenMid
  /\ fromNet' = fromNet \cup (IF mid = <<>> THEN {} ELSE {Head(trim(mid))})
  /\ lrepeated' = (lrepeated \/ (mid # <<>> /\ Head(trim(mid)) \in seenMid))
  /\ UNCHANGED <<lpc, lSnapshot, captured, fromHook, fromDom, domRun, lresult, lstdout,
                 lstderr, lexit, lpolls, lsteps>>
  /\ UNCHANGED <<orchVars, impVars, sessVars, createVars, otherVars>>

\* the init script's fetch / XHR hook, inside the page: tryCollect pushes an
\* identifier to window.__listMymapsCaptured
ListHookCapture(mid) ==
  /\ PageOpen
  /\ mid \notin captured
  /\ captured' = captured \cup {mid}
  /\ UNCHANGED <<lpc, lSnapshot, mapsFromNetwork, fromNet, seenMid, lrepeated, fromHook, fromDom, domRun,
                 lresult, lstdout, lstderr, lexit, lpolls, lsteps>>
  /\ UNCHANGED <<orchVars, impVars, sessVars, createVars, otherVars>>

\* the poll loop: waitForTimeout(pollMs); if (mapsFromNetwork.length > 0) break
ListPoll ==
  /\ lpc = "poll"
  /\ lsteps' = lsteps + 1
  /\ IF lpolls < MaxListPolls
     THEN /\ lpolls' = lpolls + 1
          /\ lpc' = IF mapsFromNetwork # <<>> THEN "afterPoll" ELSE "poll"
     ELSE /\ lpc' = "afterPoll"
          /\ UNCHANGED lpolls
  /\ UNCHANGED <<lSnapshot, mapsFromNetwork, captured, fromNet, seenMid, lrepeated, fromHook, fromDom,
                 domRun, lresult, lstdout, lstderr, lexit>>
  /\ UNCHANGED <<orchVars, impVars, sessVars, createVars, otherVars>>

\* let maps = mapsFromNetwork.length > 0 ? [...mapsFromNetwork] : [];
\* if (maps.length > 0) { exitWithMaps(maps); return; }
ListReturnNetwork ==
  /\ lpc = "afterPoll"
  /\ IF mapsFromNetwork # <<>>
     THEN exitWithMaps(mapsFromNetwork)
     ELSE /\ lpc' = "readHook1"
          /\ UNCHANGED <<lstdout, lexit, lresult>>
  /\ UNCHANGED <<lSnapshot, mapsFromNetwork, captured, fromNet, seenMid, lrepeated, fromHook, fromDom,
                 domRun, lstderr, lpolls, lsteps>>
  /\ UNCHANGED <<orchVars, impVars, sessVars, createVars, otherVars>>

\* fromPage = await page.evaluate(... window.__listMymapsCaptured ...) ([] when
\* it throws); fromPage.forEach(addMap); exit if mapsFromNetwork is not empty
ReadHook(from, to) ==
  /\ lpc = from
  /\ lsteps' = lsteps + 1
  /\ \E fromPage \in {captured, {}} :
       LET net == addAll(Net(mapsFromNetwork, seenMid), fromPage)
       IN  /\ mapsFromNetwork' = net.maps
           /\ seenMid' = net.seenMid
           /\ lrepeated' = (lrepeated \/ fromPage \cap seenMid # {})
           /\ fromHook' = fromHook \cup fromPage
           /\ IF net.maps # <<>>
              THEN exitWithMaps(net.maps)
              ELSE /\ lpc' = to
                   /\ UNCHANGED <<lstdout, lexit, lresult>>
  /\ UNCHANGED <<lSnapshot, captured, fromNet, fromDom, domRun, lstderr, lpolls>>
  /\ UNCHANGED <<orchVars, impVars, sessVars, createVars, otherVars>>

ListReadHook1 == ReadHook("readHook1", "secondGoto")

\* page.goto('https://mymaps.google.com/').catch(() => null), waitForTimeout:
\* a new document starts with an empty window.__listMymapsCaptured
ListSecondGoto ==
  /\ lpc = "secondGoto"
  /\ lsteps' = lsteps + 1
  /\ lpc' = "readHook2"
  /\ \/ captured' = {}
     \/ UNCHANGED captured
  /\ UNCHANGED <<lSnapshot, mapsFromNetwork, fromNet, seenMid, lrepeated, fromHook, fromDom, domRun, lresult, lstdout,
                 lstderr, lexit, lpolls>>
  /\ UNCHANGED <<orchVars, impVars, sessVars, createVars, otherVars>>

ListReadHook2 == ReadHook("readHook2", "domScrape")

\* maps = mapsFromNetwork.length > 0 ? mapsFromNetwork : <the scrape>: anchors
\* of the main frame, of the other frames, of the first iframe, then mid= in
\* the page HTML (whose evaluate can throw); then the result line
ListDomScrape ==
  /\ lpc = "domScrape"
  /\ lsteps' = lsteps + 1
  /\ IF mapsFromNetwork # <<>>
     THEN /\ exitWithMaps(mapsFromNetwork)
          /\ UNCHANGED <<fromDom, domRun, lstderr, lrepeated>>
     ELSE /\ domRun' = TRUE
          /\ \/ /\ \E links \in Anchors :
                     LET scraped == frameExtract(links)
                     IN  /\ fromDom' = Range(scraped)
                         /\ lrepeated' = (lrepeated \/ Cardinality({i \in 1..Len(links) : links[i] # ""}) > Len(scraped))
                         /\ exitWithMaps(scraped)
                         /\ lstderr' = IF scraped = <<>>
                                       THEN Append(lstderr, <<"[list-mymaps]", "No", "maps",
                                                              "found">>)
                                       ELSE lstderr
             \/ /\ ListFail
                /\ UNCHANGED <<fromDom, lresult, lrepeated>>
  /\ UNCHANGED <<lSnapshot, mapsFromNetwork, seenMid, captured, fromNet, fromHook, lpolls>>
  /\ UNCHANGED <<orchVars, impVars, sessVars, createVars, otherVars>>

InitListVars ==
  /\ lpc = "launch"
  /\ lSnapshot = NoSnapshot
  /\ mapsFromNetwork = <<>>
  /\ seenMid = {}
  /\ lrepeated = FALSE
  /\ captured = {}
  /\ fromNet = {}
  /\ fromHook = {}
  /\ fromDom = {}
  /\ domRun = FALSE
  /\ lresult = <<>>
  /\ lstdout = <<>>
  /\ lstderr = <<>>
  /\ lexit = "none"
  /\ lpolls = 0
  /\ lsteps = 0

NextListVars ==
  \/ ListLaunch
  \/ ListNavigate
  \/ \E mid \in RawMids : ListResponse(mid)
  \/ \E mid \in MapIds : ListHookCapture(mid)
  \/ ListPoll
  \/ ListReturnNetwork
  \/ ListReadHook1
  \/ ListSecondGoto
  \/ ListReadHook2
  \/ ListDomScrape

-----------------------------------------------------------------------------
(* scripts/launch-auth-browser.mjs : main *)

checkInterval == 5000        \* const checkInterval = 5000
maxWait == 600000            \* const maxWait = 10 * 60 * 1000

\* page.url() and the phrases page.content() contains, as a poll can read them
AuthViews ==
  [ url     : { <<"https://", "www.google.com", "/maps/d/", "u/0/">>,
                <<"https://", "accounts.google.com", "/v3", "/signin", "/identifier">>,
                <<"https://", "www.google.com", "/maps/d/", "?", "continue=", "/signin">> },
    content : SUBSET {"Verify it", "Sign in", "Create a new map", "My Maps"} ]

NoView == [url |-> <<>>, content |-> {}]

\* the test in the loop: on My Maps, not on a sign-in page, and the
\* application's markers in the content
isAuthenticated(view) ==
  /\ includes(view.url, <<"/maps/d/">>)
  /\ ~includes(view.url, <<"accounts.google.com">>)
  /\ ~includes(view.url, <<"/signin">>)
  /\ "Verify it" \notin view.content
  /\ "Sign in" \notin view.content
  /\ ("Create a new map" \in view.content \/ "My Maps" \in view.content)

\* main().catch: console.error, process.exit(1); the context is not closed
AuthFail ==
  /\ aexit' = "1"
  /\ apc' = "exited"

\* chromium.launchPersistentContext with channel 'chrome', else the bundled
\* browser; the page
AuthLaunch ==
  /\ apc = "launch"
  /\ \/ /\ actx' = "open"
        /\ apc' = "goto"
        /\ UNCHANGED aexit
     \/ /\ AuthFail
        /\ UNCHANGED actx
  /\ UNCHANGED <<elapsed, aview>>
  /\ UNCHANGED <<orchVars, impVars, sessVars, createVars, listVars, geoVars, gateVars>>

\* page.goto('https://www.google.com/maps/d/', { timeout: 60000 })
AuthNavigate ==
  /\ apc = "goto"
  /\ \/ /\ apc' = "poll"
        /\ UNCHANGED aexit
     \/ AuthFail
  /\ UNCHANGED <<elapsed, aview, actx>>
  /\ UNCHANGED <<orchVars, impVars, sessVars, createVars, listVars, geoVars, gateVars>>

\* one iteration of the while loop: waitForTimeout, elapsed += checkInterval,
\* url and content, the test; on success waitForTimeout(3000), context.close(),
\* process.exit(0).  Each await rejects once the user has closed the window.
AuthPoll ==
  /\ apc = "poll"
  /\ elapsed < maxWait
  /\ \/ /\ elapsed' = elapsed + checkInterval
        /\ \E view \in AuthViews :
             /\ aview' = view
             /\ IF isAuthenticated(view)
                THEN \/ /\ actx' = "closed"
                        /\ aexit' = "0"
                        /\ apc' = "exited"
                     \/ /\ AuthFail
                        /\ UNCHANGED actx
                ELSE UNCHANGED <<apc, actx, aexit>>
     \/ /\ AuthFail
        /\ elapsed' \in {elapsed, elapsed + checkInterval}
        /\ UNCHANGED <<aview, actx>>
  /\ UNCHANGED <<orchVars, impVars, sessVars, createVars, listVars, geoVars, gateVars>>

\* after the loop: 'Timeout waiting for authentication', context.close(),
\* process.exit(1)
AuthTimeout ==
  /\ apc = "poll"
  /\ elapsed >= maxWait
  /\ actx' = "closed"
  /\ aexit' = "1"
  /\ apc' = "exited"
  /\ UNCHANGED <<elapsed, aview>>
  /\ UNCHANGED <<orchVars, impVars, sessVars, createVars, listVars, geoVars, gateVars>>

InitAuthVars ==
  /\ apc = "launch"
  /\ elapsed = 0
  /\ aview = NoView
  /\ actx = "none"
  /\ aexit = "none"

NextAuthVars ==
  \/ AuthLaunch
  \/ AuthNavigate
  \/ AuthPoll
  \/ AuthTimeout

-----------------------------------------------------------------------------
(* server.js : cacheKey, geocodeOne, POST /api/clean-and-geocode *)

NReqs == 2      \* clean-and-geocode requests, which may overlap
MaxRows == 2    \* rows of one request that have an address
MaxClock == 2   \* how far the time runs

Reqs == 1..NReqs

\* cleaned addresses, token by token (whitespace is the token " ")
Queries ==
  { <<"Main", " ", "St">>,
    <<" ", "main", " ", " ", "st", " ">>,
    <<"Oak", " ", "St">> }

\* String.prototype.replace(/\s+/g, ' '): each run of whitespace becomes one space
RECURSIVE collapse(_)
collapse(s) ==
  IF Len(s) < 2 THEN s
  ELSE IF s[1] = " " /\ s[2] = " " THEN collapse(Tail(s))
       ELSE <<Head(s)>> \o collapse(Tail(s))

\* cacheKey(query): query.trim().toLowerCase().replace(/\s+/g, ' ')
cacheKey(query) == collapse(toLowerCase(trim(query)))

Keys == { cacheKey(q) : q \in Queries }

\* the rows a request can carry
RowLists == UNION { [1..n -> Queries] : n \in 1..MaxRows }

\* geocodeOne up to its first await for row i of request r, whose rows are rs
\* and stand as pcs: a cached key is returned, any other key is fetched
\* (geocodeWithGoogle / geocodeWithNominatim call fetch at once)
startRow(r, rs, pcs, i) ==
  LET key  == cacheKey(rs[i])
      miss == key \notin geocodeCache
  IN  /\ rowpc' = [rowpc EXCEPT ![r] = [pcs EXCEPT ![i] = IF miss THEN "fetching" ELSE "done"]]
      /\ upstream' = (IF miss THEN [upstream EXCEPT ![key] = @ + 1] ELSE upstream)
      /\ lastCallAt' = (IF miss THEN now ELSE lastCallAt)
      /\ tooSoon' = (tooSoon \/ (miss /\ lastCallAt = now))

\* rows.map(async (row) => ...) of the parallel branch: every row runs up to
\* its first await before any fetch has returned
startAll(r, rs) ==
  LET miss(i) == cacheKey(rs[i]) \notin geocodeCache
      calls(k) == Cardinality({ i \in 1..Len(rs) : miss(i) /\ cacheKey(rs[i]) = k })
  IN  /\ rowpc' = [rowpc EXCEPT ![r] = [i \in 1..Len(rs) |->
                                          IF miss(i) THEN "fetching" ELSE "done"]]
      /\ upstream' = [k \in Keys |-> upstream[k] + calls(k)]
      /\ lastCallAt' = (IF \E i \in 1..Len(rs) : miss(i) THEN now ELSE lastCallAt)
      /\ UNCHANGED tooSoon

\* app.post('/api/clean-and-geocode', ...) up to its first await
GeoRequest(r, rs) ==
  /\ gpc[r] = "idle"
  /\ grows' = [grows EXCEPT ![r] = rs]
  /\ gpc' = [gpc EXCEPT ![r] = "running"]
  /\ IF useGoogle
     THEN startAll(r, rs)
     ELSE startRow(r, rs, [i \in 1..Len(rs) |-> "todo"], 1)
  /\ UNCHANGED <<useGoogle, geocodeCache, now, sleepFrom>>
  /\ UNCHANGED <<orchVars, impVars, sessVars, createVars, listVars, authVars, gateVars>>

\* the sequential branch's loop goes on to row i after an await
GeoNextRow(r, i) ==
  /\ ~useGoogle
  /\ gpc[r] = "running"
  /\ i \in 1..Len(grows[r])
  /\ rowpc[r][i] = "todo"
  /\ \A j \in 1..(i - 1) : rowpc[r][j] = "done"
  /\ startRow(r, grows[r], rowpc[r], i)
  /\ UNCHANGED <<useGoogle, geocodeCache, grows, gpc, now, sleepFrom>>
  /\ UNCHANGED <<orchVars, impVars, sessVars, createVars, listVars, authVars, gateVars>>

\* the fetch of row i returns: geocodeCache.set(key, result); in the
\* sequential branch   if (!wasCached && i < rows.length - 1) await sleep(...)
GeoFetched(r, i) ==
  /\ i \in 1..Len(grows[r])
  /\ rowpc[r][i] = "fetching"
  /\ rowpc' = [rowpc EXCEPT ![r][i] = "done"]
  /\ geocodeCache' = geocodeCache \cup {cacheKey(grows[r][i])}
  /\ IF ~useGoogle /\ i < Len(grows[r])
     THEN /\ gpc' = [gpc EXCEPT ![r] = "sleeping"]
          /\ sleepFrom' = [sleepFrom EXCEPT ![r] = now]
     ELSE UNCHANGED <<gpc, sleepFrom>>
  /\ UNCHANGED <<useGoogle, grows, upstream, now, lastCallAt, tooSoon>>
  /\ UNCHANGED <<orchVars, impVars, sessVars, createVars, listVars, authVars, gateVars>>

\* sleep(NOMINATIM_DELAY_MS) resolves, a full delay after it began
GeoSleepDone(r) ==
  /\ gpc[r] = "sleeping"
  /\ now > sleepFrom[r]
  /\ gpc' = [gpc EXCEPT ![r] = "running"]
  /\ UNCHANGED <<useGoogle, geocodeCache, grows, rowpc, upstream, now, lastCallAt,
                 sleepFrom, tooSoon>>
  /\ UNCHANGED <<orchVars, impVars, sessVars, createVars, listVars, authVars, gateVars>>

\* res.json({ rows: out }) once every row is done
GeoReply(r) ==
  /\ gpc[r] = "running"
  /\ \A i \in 1..Len(grows[r]) : rowpc[r][i] = "done"
  /\ gpc' = [gpc EXCEPT ![r] = "replied"]
  /\ UNCHANGED <<useGoogle, geocodeCache, grows, rowpc, upstream, now, lastCallAt,
                 sleepFrom, tooSoon>>
  /\ UNCHANGED <<orchVars, impVars, sessVars, createVars, listVars, authVars, gateVars>>

\* NOMINATIM_DELAY_MS go by
GeoTick ==
  /\ now < MaxClock
  /\ now' = now + 1
  /\ UNCHANGED <<useGoogle, geocodeCache, grows, rowpc, gpc, upstream, lastCallAt,
                 sleepFrom, tooSoon>>
  /\ UNCHANGED <<orchVars, impVars, sessVars, createVars, listVars, authVars, gateVars>>

InitGeoVars ==
  /\ useGoogle \in BOOLEAN
  /\ geocodeCache = {}
  /\ grows = [r \in Reqs |-> <<>>]
  /\ rowpc = [r \in Reqs |-> <<>>]
  /\ gpc = [r \in Reqs |-> "idle"]
  /\ upstream = [k \in Keys |-> 0]
  /\ now = 0
  /\ lastCallAt = -1
  /\ sleepFrom = [r \in Reqs |-> 0]
  /\ tooSoon = FALSE

NextGeoVars ==
  \/ \E r \in Reqs, rs \in RowLists : GeoRequest(r, rs)
  \/ \E r \in Reqs, i \in 1..MaxRows : GeoNextRow(r, i)
  \/ \E r \in Reqs, i \in 1..MaxRows : GeoFetched(r, i)
  \/ \E r \in Reqs : GeoSleepDone(r)
  \/ \E r \in Reqs : GeoReply(r)
  \/ GeoTick

-----------------------------------------------------------------------------
(* server.js : parseCookies, requireAuth, app.use(requireAuth) and the routes *)

AUTH_COOKIE == <<"address-plotter-auth">>
AUTH_TOKEN == <<"hmac">>

\* one name=value part of a Cookie header, both sides as written
Part(n, v) == [n |-> n, v |-> v]

\* Cookie headers (<<>>: no header)
CookieHeaders ==
  { <<>>,
    <<Part(AUTH_COOKIE, AUTH_TOKEN)>>,
    <<Part(<<"other">>, <<"x">>), Part(<<" ", "address-plotter-auth">>, <<"hmac", " ">>)>>,
    <<Part(AUTH_COOKIE, <<"forged">>)>>,
    <<Part(AUTH_COOKIE, <<>>)>>,
    <<Part(<<"other">>, AUTH_TOKEN)>>,
    <<Part(AUTH_COOKIE, AUTH_TOKEN), Part(AUTH_COOKIE, <<"forged">>)>> }

\* parseCookies(cookieHeader): Object.fromEntries of the trimmed pairs, so the
\* last part of a name wins; a name that is absent maps to <<"undefined">>
parseCookies(cookieHeader) ==
  [name \in { trim(cookieHeader[i].n) : i \in 1..Len(cookieHeader) } \cup {AUTH_COOKIE} |->
     LET at == { i \in 1..Len(cookieHeader) : trim(cookieHeader[i].n) = name }
     IN  IF at = {} THEN <<"undefined">>
         ELSE trim(cookieHeader[CHOOSE i \in at : \A j \in at : j <= i].v)]

\* request paths: the prefix up to the second slash, then the rest
Paths ==
  { <<"/api/", "login">>, <<"/api/", "login", "x">>, <<"/api/", "config">>,
    <<"/api/", "launch-auth">>, <<"/api/", "save-kml">>, <<"/api/", "clean-and-geocode">>,
    <<"/api/", "mymaps-import">>, <<"/api/", "nothing">>, <<"/API/", "save-kml">>,
    <<"/login.html">>, <<"/">> }

Requests ==
  [method : {"GET", "POST"}, path : Paths, cookie : CookieHeaders, secret : BOOLEAN]

NoReq == [method |-> "", path |-> <<>>, cookie |-> <<>>, secret |-> FALSE]

\* req.path.startsWith('/api/login')
startsWithApiLogin(p) == Len(p) >= 2 /\ p[1] = "/api/" /\ p[2] = "login"

\* req.path.startsWith('/api/')
startsWithApi(p) == p # <<>> /\ p[1] = "/api/"

requireAuthAnyCookie(secretSet, req) ==
  IF ~secretSet THEN "next"
  ELSE IF parseCookies(req.cookie)[AUTH_COOKIE] # <<"undefined">> THEN "next"
  ELSE IF req.path = <<"/login">> \/ req.path = <<"/login.html">>
          \/ startsWithApiLogin(req.path) THEN "next"
  ELSE IF req.method = "POST" /\ req.path = <<"/api/", "login">> THEN "next"
  ELSE IF startsWithApi(req.path) THEN "401"
  ELSE "redirect"

\* requireAuth(req, res, next): "next", or the answer it gives itself
requireAuth(secretSet, req) ==
  IF ~secretSet THEN "next"
  ELSE IF parseCookies(req.cookie)[AUTH_COOKIE] = AUTH_TOKEN THEN "next"
  ELSE IF req.path = <<"/login">> \/ req.path = <<"/login.html">>
          \/ startsWithApiLogin(req.path) THEN "next"
  ELSE IF req.method = "POST" /\ req.path = <<"/api/", "login">> THEN "next"
  ELSE IF startsWithApi(req.path) THEN "401"
  ELSE "redirect"

\* the handlers registered after app.use(requireAuth) and what each does
Routes ==
  { [method |-> "POST", path |-> <<"/api/", "login">>, effect |-> "cookie"],
    [method |-> "GET", path |-> <<"/api/", "config">>, effect |-> "none"],
    [method |-> "POST", path |-> <<"/api/", "launch-auth">>, effect |-> "spawn"],
    [method |-> "POST", path |-> <<"/api/", "save-kml">>, effect |-> "write"],
    [method |-> "POST", path |-> <<"/api/", "clean-and-geocode">>, effect |-> "geocode"],
    [method |-> "POST", path |-> <<"/api/", "mymaps-import">>, effect |-> "spawn"],
    [method |-> "GET", path |-> <<"/login.html">>, effect |-> "none"] }

\* the routes a request is dispatched to; the router compares paths without
\* regard to case
routeOf(req) ==
  { rt \in Routes : rt.method = req.method /\ rt.path = toLowerCase(req.path) }

\* one request through app.use(requireAuth) and, if it calls next(), the router
HttpRequest(req) ==
  /\ hreq' = req
  /\ LET gate == requireAuth(sharedSecret, req)
         rts  == routeOf(req)
     IN  IF gate = "401"
         THEN hstatus' = 401 /\ hhandler' = <<>> /\ heffect' = "none"
         ELSE IF gate = "redirect"
         THEN hstatus' = 302 /\ hhandler' = <<>> /\ heffect' = "none"
         ELSE IF rts = {}
         THEN hstatus' = 404 /\ hhandler' = <<>> /\ heffect' = "none"
         ELSE LET rt == CHOOSE x \in rts : TRUE
              IN  /\ hhandler' = rt.path
                  /\ IF rt.effect = "cookie"
                     THEN \* POST /api/login
                          IF ~sharedSecret THEN hstatus' = 400 /\ heffect' = "none"
                          ELSE IF ~req.secret THEN hstatus' = 401 /\ heffect' = "none"
                          ELSE hstatus' = 200 /\ heffect' = "cookie"
                     ELSE hstatus' = 200 /\ heffect' = rt.effect
  /\ UNCHANGED sharedSecret
  /\ UNCHANGED <<orchVars, impVars, sessVars, createVars, listVars, authVars, geoVars>>

InitGateVars ==
  /\ sharedSecret \in BOOLEAN
  /\ hreq = NoReq
  /\ hstatus = 0
  /\ hhandler = <<>>
  /\ heffect = "none"

NextGateVars == \E req \in Requests : HttpRequest(req)

-----------------------------------------------------------------------------
(* Specifications *)

\* each specification runs one subsystem; the others stay in their initial
\* state
InitAll ==
  /\ InitOrchVars /\ InitImportVars /\ InitSessionVars /\ InitCreateVars /\ InitListVars
  /\ InitAuthVars /\ InitGeoVars /\ InitGateVars

\* the import script has passed its argument checks and is about to call main
ArgsValid == ipc = "getPage" /\ importArgs = ValidArgs

InitOrch ==
  InitAll /\ ArgsValid
  /\ pkillMatches /\ cargv = "T" /\ layerName = "L" /\ useGoogle /\ sharedSecret

SpecOrch == InitOrch /\ [][NextOrchVars]_vars

\* the import route together with the argument checks of the script it spawns
InitArgs == InitAll /\ pkillMatches /\ cargv = "T" /\ layerName = "L" /\ ipc = "validate" /\ useGoogle /\ sharedSecret

NextArgsVars ==
  \/ \E k \in Kinds : StartRequest(k)
  \/ \E line \in Lines : ChildStdout(line)
  \/ \E code \in {"0", "1"} : ChildClose(code)
  \/ ChildError
  \/ ImportValidate

SpecArgs == InitArgs /\ [][NextArgsVars]_vars

InitImport ==
  InitAll /\ ArgsValid
  /\ pkillMatches /\ cargv = "T" /\ useGoogle /\ sharedSecret

SpecImport == InitImport /\ [][NextImportVars]_vars

InitSession ==
  InitAll /\ ArgsValid
  /\ cargv = "T" /\ layerName = "L" /\ useGoogle /\ sharedSecret

SpecSession == InitSession /\ [][NextSessionVars]_vars

SpecCalls == InitSession /\ [][NextCallsVars]_vars

InitCreate ==
  InitAll /\ ArgsValid
  /\ pkillMatches /\ layerName = "L" /\ useGoogle /\ sharedSecret

SpecCreate == InitCreate /\ [][NextCreateVars]_vars

InitList ==
  InitAll /\ ArgsValid
  /\ pkillMatches /\ cargv = "T" /\ layerName = "L" /\ useGoogle /\ sharedSecret

SpecList == InitList /\ [][NextListVars]_vars

InitAuth ==
  InitAll /\ ArgsValid /\ pkillMatches /\ cargv = "T" /\ layerName = "L" /\ useGoogle /\ sharedSecret

InitGeo ==
  InitAll /\ ArgsValid /\ pkillMatches /\ cargv = "T" /\ layerName = "L" /\ sharedSecret

InitGate ==
  InitAll /\ ArgsValid /\ pkillMatches /\ cargv = "T" /\ layerName = "L" /\ useGoogle

SpecGate == InitGate /\ [][NextGateVars]_vars

SpecGeo == InitGeo /\ [][NextGeoVars]_vars

SpecAuth == InitAuth /\ [][NextAuthVars]_vars

-----------------------------------------------------------------------------
(* Properties: session manager (SpecSession) *)

\* C1: at most one live browser session holds the profile directory at any
\* instant, however many workflow processes run concurrently; a process's
\* pre-launch cleanup never lets a second session start while a first is live.
C1_MutualExclusion == Cardinality(live) <= 1

\* C4: a launch that succeeds at attempt k <= maxAttempts after k-1 failures
\* that were all profile-lock errors returns a usable session and propagates no
\* error: getBrowser has not thrown while every failure so far was a lock error
\* and fewer than maxAttempts attempts failed, and a returned call holds a
\* context and no error.
C4_LockRetryReturnsSession ==
  \A p \in Procs :
    /\ (spc[p] = "thrown" /\ lockFails[p] = fails[p]) => fails[p] >= maxAttempts
    /\ spc[p] = "returned" => (ctx[p] = "set" /\ gbError[p] = <<>>)

\* C4 witness: lock errors on attempts 1 and 2, success on attempt 3
C4_Witness ==
  \E p \in Procs :
    /\ spc[p] = "returned"
    /\ launchAttempt[p] = 3
    /\ lockFails[p] = 2
    /\ fails[p] = 2
    /\ p \in live

\* C5: whenever a launch attempt met the profile lock - in either of the two
\* launch configurations - and fewer than maxAttempts attempts have been made,
\* getBrowser cleans up and retries instead of throwing; the number of launch
\* attempts never exceeds maxAttempts.
C5_RetriesWhicheverConfigurationMetLock ==
  \A p \in Procs :
    /\ (metLock[p] /\ launchAttempt[p] < maxAttempts) => spc[p] # "thrown"
    /\ launchAttempt[p] <= maxAttempts

\* C28: each launch attempt tries the preferred configuration first and the
\* secondary one if and only if the preferred one failed; the attempt fails
\* only when both failed; and a launch failure that is not a profile-lock
\* error is thrown to the caller at once, without cleanup or retry.
C28_FallbackThenFatalUnlessLocked ==
  [][\A p \in Procs :
       /\ (spc[p] # "launch1" /\ spc'[p] = "launch1") =>
             spc[p] \in {"prePkill", "retryPkill"}
       /\ (spc[p] # "launch2" /\ spc'[p] = "launch2") =>
             (spc[p] = "launch1" /\ ctx'[p] = "null")
       /\ (spc[p] = "launch1" /\ spc'[p] # "launch1") =>
             \/ spc'[p] = "returned" /\ ctx'[p] = "set"
             \/ spc'[p] = "launch2"
       /\ fails'[p] > fails[p] => spc[p] = "launch2"
       /\ (fails'[p] > fails[p] /\ lockFails'[p] = lockFails[p]) =>
             /\ spc'[p] = "thrown"
             /\ gbError'[p] \in OtherErrorMsgs
             /\ launchAttempt'[p] = launchAttempt[p]
       /\ (spc[p] # "retryUnlink" /\ spc'[p] = "retryUnlink") =>
             lockFails'[p] > lockFails[p]]_vars

\* C28 witness: in its first attempt a process saw both configurations fail,
\* the secondary one with an error that is no profile-lock error, and
\* getBrowser threw that error
C28_Witness ==
  \E p \in Procs :
    /\ spc[p] = "thrown"
    /\ launchAttempt[p] = 1
    /\ fails[p] = 1
    /\ lockFails[p] = 0
    /\ gbError[p] \in OtherErrorMsgs

\* a step of process p that may end p's own session: closeBrowser, or the
\* cleanup (force cleanup) p runs
OwnStep(p) == CloseBrowserContext(p) \/ CleanupUnlink(p) \/ CleanupPkill(p)

\* C22: a live session is destroyed only by the process that created it: no
\* step of another process's launch or cleanup kills the browser of a live
\* session or removes the lock artifacts that session holds.
C22_OnlyOwnerDestroysSession ==
  [][\A p \in Procs :
       /\ (p \in live /\ p \notin live') => OwnStep(p)
       /\ (p \in live /\ lockFile = p /\ lockFile' # p) => OwnStep(p)]_vars

liveContexts(p) == (IF ctx[p] = "set" /\ p \in live THEN 1 ELSE 0) + orphaned[p]

\* C32: within one process, whatever getBrowser, getPage, closeBrowser and
\* forceCleanup calls it made, at most one context it launched is live.
C32_AtMostOneLiveContext ==
  \A p \in Procs : liveContexts(p) <= 1

-----------------------------------------------------------------------------
(* Properties: import workflow (SpecImport) *)

\* C2: once an attempt has failed with a session-expired error (from the auth
\* probe after navigation or from the probe inside the UI-ready wait), no
\* further attempt is started; the process ends with the session closed,
\* exit code 1 and that error.
C2_SessionExpiredNeverRetried ==
  expiredAt # 0 =>
    /\ started = expiredAt
    /\ ipc \in {"catch", "exited"}
    /\ ipc = "exited" =>
         (exitStatus = "1" /\ thrown = SessionExpiredMsg /\ browserContext = "null")

\* C2 witness: the second attempt's UI-ready wait raised the session error and
\* the process has ended
C2_Witness ==
  /\ expiredAt = 2
  /\ polls = 1
  /\ ipc = "exited"
  /\ exitStatus = "1"

\* C3: a non-terminal failure is retried as a whole; never more than
\* MAX_RETRIES + 1 attempts are started; a run that fails without a session
\* error has made all MAX_RETRIES + 1 attempts; and when every attempt failed
\* the process ends in failure with the last attempt's error.
C3_BoundedRetryReportsLastError ==
  /\ started <= MAX_RETRIES + 1
  /\ (ipc = "exited" /\ exitStatus = "1" /\ expiredAt = 0) => started = MAX_RETRIES + 1
  /\ (ipc = "exited" /\ failed = started) => (exitStatus = "1" /\ thrown = lastFailure)

\* C3 witness: three failed attempts, the last one on the Import button
C3_Witness ==
  /\ ipc = "exited"
  /\ started = MAX_RETRIES + 1
  /\ failed = MAX_RETRIES + 1
  /\ expiredAt = 0
  /\ thrown = ImportButtonMsg

\* C10: a probed page whose url matches the authentication-domain pattern is
\* classified Unauthenticated whatever the credential-field, sign-in-link and
\* positive-marker flags are; a page with a non-matching url and none of the
\* flags is classified Authenticated.
C10_AuthUrlPrecedence ==
  probe # "none" =>
    /\ authUrlPattern(snapshot.url) => probe = "invalid"
    /\ ( /\ ~authUrlPattern(snapshot.url)
         /\ ~snapshot.loginFields
         /\ ~snapshot.signInLink
         /\ ~(snapshot.createMap \/ snapshot.addLayer \/ snapshot.mapTitle) )
       => probe = "valid"

\* C10 witness: an authentication url with the application's own markers
\* visible and no credential field or sign-in link, classified Unauthenticated
C10_Witness ==
  /\ probe = "invalid"
  /\ authUrlPattern(snapshot.url)
  /\ ~snapshot.loginFields
  /\ ~snapshot.signInLink
  /\ snapshot.addLayer

\* C11: for a probed page whose url does not match the authentication-domain
\* pattern: credential fields present make the result Unauthenticated whatever
\* the other flags are; without credential fields the result is Unauthenticated
\* exactly when a sign-in link is present and no positive marker is, and
\* Authenticated otherwise (a sign-in link next to a positive marker included).
C11_SignInLinkNeedsNoMarkers ==
  (probe # "none" /\ ~authUrlPattern(snapshot.url)) =>
    IF snapshot.loginFields
    THEN probe = "invalid"
    ELSE (probe = "invalid") <=>
           ( /\ snapshot.signInLink
             /\ ~(snapshot.createMap \/ snapshot.addLayer \/ snapshot.mapTitle) )

\* C11 witness: a sign-in link together with the map title marker, no
\* credential fields, on the editor url: classified Authenticated
C11_Witness ==
  /\ probe = "valid"
  /\ ~authUrlPattern(snapshot.url)
  /\ ~snapshot.loginFields
  /\ snapshot.signInLink
  /\ snapshot.mapTitle
  /\ ~snapshot.addLayer

\* C14: after a failed non-terminal attempt that is not the last one the
\* session is closed and cleanup is forced before the next attempt: every
\* attempt after the first starts with no in-memory session handle and one
\* forced cleanup per earlier attempt, and each attempt that got a page runs on
\* a session launched for it, never on the session of an earlier attempt.
C14_FreshSessionPerAttempt ==
  /\ (ipc = "getPage" /\ attempt > 1) =>
        (browserContext = "null" /\ cleaned = attempt - 1)
  /\ \A i, j \in 1..Len(pageSessions) : i # j => pageSessions[i] # pageSessions[j]
  /\ ipc \in {"navigate", "checkSession", "waitForMapsUI", "uiReady", "addLayer",
              "clickImport", "setFile", "confirm", "settling", "success"} =>
        /\ browserContext = "open"
        /\ pageSessions # <<>>
        /\ pageSessions[Len(pageSessions)] = sessionId

\* C14 witness: the third attempt navigates on the third session after two
\* failed attempts that each had a page of their own
C14_Witness ==
  /\ attempt = 3
  /\ ipc = "navigate"
  /\ pageSessions = <<1, 2, 3>>
  /\ cleaned = 2

\* C15: the settle poll reports 'settled' only at a poll where the import
\* dialog markers are gone and no error text is visible; error text that is
\* visible at a poll makes the attempt fail; and the poll returns 'not
\* settled' once its timeout has elapsed.
C15_SettledOnlyWithoutErrorText ==
  /\ settled = "true" =>
        (~settleObs.fileInput /\ ~settleObs.dialog /\ ~settleObs.error)
  /\ settleObs.error =>
        (lastFailure = ImportShownErrorMsg /\ ipc \in {"catch", "getPage", "exited"})
  /\ settled = "false" => settlePolls = MaxSettlePolls
  /\ settlePolls <= MaxSettlePolls

\* C16: an import attempt reaches Success only if the settle condition was
\* observed within the settle timeout; an attempt whose settle poll timed out
\* is a failure and is never reported as a successful import.
C16_SuccessOnlyAfterSettle ==
  /\ ipc = "success" => settled = "true"
  /\ exitStatus = "0" => settled = "true"

\* C17: over a whole run the number of layers added to the target map equals
\* the number of successful imports: a run ending in Success has added exactly
\* one layer, and a failed attempt leaves no added layer behind.
C17_LayersEqualSuccessfulImports ==
  /\ (ipc = "exited" /\ exitStatus = "0") => layers = 1
  /\ (ipc = "exited" /\ exitStatus = "1") => layers = 0
  /\ ipc \in {"catch", "getPage"} => layers = 0

PhaseOrder ==
  <<"Navigating", "AuthChecking", "UIReady", "AddingLayer", "OpeningImportDialog",
    "SettingFile", "Confirming", "Settling">>

\* the terminal outcome of an import job that has ended
Outcome ==
  IF exitStatus = "0" THEN "Success"
  ELSE IF expiredAt # 0 /\ thrown = SessionExpiredMsg THEN "SessionExpired"
  ELSE IF failed = MAX_RETRIES + 1 /\ started = MAX_RETRIES + 1 /\ thrown = lastFailure
       THEN "ExhaustedRetries"
  ELSE "Other"

-----------------------------------------------------------------------------
(* Properties: the three workflow scripts *)

\* C12: in each of the three workflows the authentication state is probed
\* after the navigation to the entry url and before any workflow step, and an
\* Unauthenticated result aborts the workflow with SessionExpired without any
\* further step: import and create go on only after a probe that passed and
\* fail with the session error after one that did not, and the list workflow
\* carries out steps, and ends with exit code 0, only on an entry page that
\* the probe classifies as Authenticated.
C12_ProbeBeforeAnyStep ==
  /\ ipc = "waitForMapsUI" => probe = "valid"
  /\ probe = "invalid" =>
        (lastFailure = SessionExpiredMsg /\ Len(phases) < 3 /\ ipc \in {"catch", "exited"})
  /\ Len(phases) >= 3 => expiredAt = 0
  /\ csteps > 0 => cprobe = "valid"
  /\ cprobe = "invalid" => (csteps = 0 /\ cthrown = SessionExpiredMsg /\ cexit = "1")
  /\ lsteps > 0 => checkGoogleSession(lSnapshot)
  /\ lexit = "0" => checkGoogleSession(lSnapshot)

\* standard output holds one line, and that line is well-formed JSON
OneResultLine(lines) == Len(lines) = 1 /\ JSONparse(lines[1]).ok

\* C13: every run of a workflow subprocess (list, create, import) that exits
\* with code 0 has written exactly one well-formed result line to standard
\* output, as the last line and with no other line on standard output.
C13_OneResultLineOnExitZero ==
  /\ lexit = "0" => OneResultLine(lstdout)
  /\ cexit = "0" => OneResultLine(cstdout)
  /\ exitStatus = "0" => OneResultLine(out)

\* the url carries a mid parameter: '?' or '&', 'mid=', a value
HasMidParameter(url) ==
  \E i \in 1..(Len(url) - 2) :
     url[i] \in {"?", "&"} /\ url[i + 1] = "mid=" /\ url[i + 2] # "&"

\* the name the caller asked for
RequestedName == IF cargv = "" THEN "Untitled map" ELSE cargv

\* C19: once the creation trigger has succeeded and the resulting url carries
\* a mid parameter, the workflow writes the result {mid, title} - mid taken
\* from the url, title equal to the requested name - and succeeds whatever the
\* outcome (success, failure, timeout) of the rename and share sub-steps; when
\* no mid can be extracted from the url the workflow fails and writes no result.
C19_ResultDespiteRenameAndShare ==
  /\ cmid # "" => cexit # "1"
  /\ (cpc = "exited" /\ curl # <<>> /\ HasMidParameter(curl)) =>
        /\ cexit = "0"
        /\ \E i \in 1..(Len(curl) - 2) :
              /\ curl[i] \in {"?", "&"} /\ curl[i + 1] = "mid="
              /\ cstdout = << <<"{", member("mid", curl[i + 2]), ",",
                                member("title", RequestedName), "}">> >>
  /\ (cpc = "exited" /\ curl # <<>> /\ ~HasMidParameter(curl)) =>
        (cexit = "1" /\ cstdout = <<>>)

\* C19 witness: the rename timed out and the share dialog failed, and the
\* process ended with code 0 and the result line for map N titled T
C19_Witness ==
  /\ cexit = "0"
  /\ renameOutcome = "timeout"
  /\ shareOutcome = "failed"
  /\ cstdout = << <<"{", "mid:N", ",", "title:T", "}">> >>

\* C20: the list result is the first non-empty set in the priority order
\* identifiers from intercepted network responses, identifiers from the
\* in-page fetch/XHR hook, identifiers from the DOM scrape; when both
\* network-derived sources are empty the DOM scrape is run and its result
\* returned; an empty list is returned only if all three sources are empty.
C20_FirstNonEmptySource ==
  lexit = "0" =>
    /\ Range(lresult) = (IF fromNet # {} THEN fromNet
                         ELSE IF fromHook # {} THEN fromHook
                         ELSE fromDom)
    /\ (fromNet = {} /\ fromHook = {}) => domRun
    /\ lresult = <<>> => (fromNet = {} /\ fromHook = {} /\ fromDom = {})

\* C29: the strategies of a step are tried in their order, each only if every
\* earlier one failed, so that in one attempt the 'Add layer' click and the
\* 'Import' click each work once at most; and an attempt in which every
\* strategy of the step failed fails with that step's element-not-found error.
C29_StrategiesInOrderClickOnce ==
  /\ importClicks <= 1
  /\ (ipc = "catch" /\ phases # <<>> /\ last(phases) = "AddingLayer") =>
        (err = AddLayerMsg /\ ~clicked)
  /\ (ipc = "catch" /\ phases # <<>> /\ last(phases) = "OpeningImportDialog") =>
        (err = ImportButtonMsg /\ importClicks = 0)

\* C30: the file is supplied by the file input of the main document, else by
\* that of a frame, else - only if all of those failed - by the file chooser;
\* the first strategy that works ends the search; and when the file chooser
\* fails too the attempt fails with 'Could not set file for import' and the
\* Confirm step is not entered.
C30_FileInputThenChooser ==
  /\ ~fileSkipped
  /\ "Confirming" \in Range(phases) => fileSetBy # 0
  /\ (ipc = "catch" /\ phases # <<>> /\ last(phases) = "SettingFile") =>
        /\ fileSetBy = 0
        /\ includes(err, <<"Could", "not", "set", "file", "for", "import">>)

\* C30 witness: both file inputs failed, the file chooser supplied the file,
\* and the import ended successfully
C30_Witness ==
  /\ fileSetBy = FileChooser
  /\ "Confirming" \in Range(phases)
  /\ exitStatus = "0"

\* C24: after the import has settled the workflow performs the post-steps -
\* it renames the new layer when a display name was supplied, and recolors it -
\* before it ends successfully.
C24_PostStepsAfterSettle ==
  exitStatus = "0" =>
    /\ "Recoloring" \in Range(phases)
    /\ layerName # "" => "Renaming" \in Range(phases)

\* C23: on every terminal path of a workflow process - success, session
\* expired, exhausted retries, any other fatal error - the session has been
\* closed before the process finishes: the import process has exited, or the
\* create process has written its result or exited, only with no browser
\* context left open.
C23_SessionClosedOnEveryTerminalPath ==
  /\ ipc = "exited" => browserContext = "null"
  /\ cpc \in {"resolved", "exited"} => cbrowser = "null"

\* no identifier stands at two positions of maps
NoDuplicates(maps) ==
  \A i, j \in 1..Len(maps) : maps[i] = maps[j] => i = j

\* C21: the list written as the result never holds two entries with the same
\* identifier, whatever network responses, in-page captures and DOM anchors
\* were observed; and the set of seen identifiers always equals the set of the
\* identifiers in the network-derived list.
C21_NoDuplicateIdentifiers ==
  /\ NoDuplicates(lresult)
  /\ NoDuplicates(mapsFromNetwork)
  /\ seenMid = Range(mapsFromNetwork)

\* C21 witness: a source offered an identifier it had offered before, and the
\* process returned a list of two maps
C21_Witness ==
  /\ lexit = "0"
  /\ lrepeated
  /\ Len(lresult) = 2

\* the identifier an earlier CreateResource returned and ImportLayer imported to
CreatedMid == "A"

\* the account holds the created map: a source that shows maps shows it, and a
\* page with a valid session shows maps in one source at least
AccountShowsCreated ==
  /\ \A source \in {fromNet, fromHook, fromDom} : source = {} \/ CreatedMid \in source
  /\ checkGoogleSession(lSnapshot) => (fromNet \cup fromHook \cup fromDom) # {}

-----------------------------------------------------------------------------
(* Properties: process orchestrator (SpecOrch) *)

IsTimeoutReply(r) == r.status = 500 /\ includes(r.error, <<"Timed", "out">>)

\* C6: for each of the three workflows, when the timeout elapses while the
\* subprocess is still running, the subprocess is killed and the caller is
\* sent a timeout error.
C6_TimeoutKillsAndReports ==
  timedOut = "running" =>
    /\ child = "killed" \/ exitCode = "null"
    /\ \E i \in 1..Len(replies) : IsTimeoutReply(replies[i])

\* a line that is a well-formed result of workflow k
WellFormedResult(k, line) ==
  LET v == JSONparse(line)
  IN  /\ v.ok
      /\ k = "list" => v.type = "array"
      /\ k = "create" => (v.type = "object" /\ "mid:M" \in v.pairs)

ResultLines(k) == {i \in 1..Len(stdout) : WellFormedResult(k, stdout[i])}

\* C7: when a list or create subprocess exits with code 0 and its standard
\* output holds exactly one well-formed result line among diagnostic lines of
\* any content and position, the reply carries exactly that line's content.
C7_ResultLineExtracted ==
  ( /\ kind \in {"list", "create"}
    /\ child = "closed"
    /\ exitCode = "0"
    /\ timedOut = "no"
    /\ Cardinality(ResultLines(kind)) = 1 )
  => \A i \in ResultLines(kind) :
        replies = <<Reply(200, NoError, JSONparse(stdout[i]))>>

\* the lines of the shape workflow k's handler looks for
ShapeLines(k) == filter(stdout, IF k = "list" THEN "[" ELSE "{")

\* C8: when a list or create subprocess exits with code 0 and standard output
\* has no line of the expected shape, or the last such line does not parse,
\* the reply is an error and never a success payload.
C8_MalformedResultIsError ==
  ( /\ kind \in {"list", "create"}
    /\ child = "closed"
    /\ exitCode = "0"
    /\ timedOut = "no"
    /\ \/ ShapeLines(kind) = <<>>
       \/ ~JSONparse(last(ShapeLines(kind))).ok )
  => (Len(replies) = 1 /\ replies[1].status = 500)

ExpiryPhrases ==
  { <<"session", "expired">>, <<"sign", "in", "required">>, <<"verify", "it">>,
    <<"re-authenticate">> }

\* the text contains an authentication-expiry phrase, in any letter case
ContainsExpiryPhrase(text) ==
  \E ph \in ExpiryPhrases : includes(toLowerCase(text), ph)

C26_AtMostOneAuthBrowser ==
  /\ authRunning <= 1
  /\ authRunning = 1 => authBrowserProcess = "running"

\* C27: for every list, create and import request the Orchestrator sends at
\* most one response, under every ordering of the subprocess's 'close' event,
\* its 'error' event (spawn failure) and the request timeout.
C27_AtMostOneResponse == Len(replies) <= 1

\* an import request without a string mid, or made while the export file is
\* missing
BadBody == kind = "import" /\ (reqBody.mid.type # "string" \/ ~reqBody.kml)

\* the import script was started without a mid or with a file that is missing
BadArgs == importArgs.mid = "" \/ ~importArgs.kml

\* C33: an import request whose body lacks a string mid, or that arrives when
\* the export file does not exist, gets one reply with status 400 and no
\* subprocess; the import script started without a mid or with a file that
\* does not exist exits with code 1 and has launched no browser session.
C33_InvalidImportRejected ==
  /\ BadBody =>
       /\ child = "none"
       /\ Len(replies) = 1
       /\ replies[1].status = 400
       /\ replies[1].error # NoError
  /\ BadArgs =>
       /\ ipc \in {"validate", "exited"}
       /\ ipc = "exited" => exitStatus = "1"
       /\ browserContext = "null" /\ sessionId = 0 /\ started = 0

\* C33 witness: a request with a string mid was refused because the export
\* file is missing, and the script, started without a mid, has exited
C33_Witness ==
  /\ BadBody
  /\ reqBody.mid = ValidBody.mid
  /\ replies # <<>>
  /\ importArgs.mid = ""
  /\ ipc = "exited"

-----------------------------------------------------------------------------
(* Properties: re-authentication browser (SpecAuth) *)

\* C34: the re-authentication process, once it has a context, exits with
\* code 0 at the first poll at which the page is authenticated, otherwise
\* with code 1 only when the ten-minute bound is reached, and has closed its
\* context whenever it has exited.
C34_ExitsOnSuccessOrBound ==
  /\ (apc = "poll" /\ aview # NoView) => ~isAuthenticated(aview)
  /\ (aexit # "none" /\ actx # "none") =>
       /\ actx = "closed"
       /\ \/ aexit = "0" /\ isAuthenticated(aview)
          \/ aexit = "1" /\ elapsed >= maxWait

-----------------------------------------------------------------------------
(* Properties: geocoding (SpecGeo) *)

\* C35: whatever lookups are made - rows of one request in parallel, several
\* requests at once - at most one upstream geocoding call is made for each
\* normalized address key.
C35_OneUpstreamCallPerKey ==
  \A k \in Keys : upstream[k] <= 1

\* C36: in Nominatim mode no upstream request is issued before a full
\* NOMINATIM_DELAY_MS has passed since the one before it, however the
\* clean-and-geocode requests interleave.
C36_NominatimRateLimit ==
  ~useGoogle => ~tooSoon

-----------------------------------------------------------------------------
(* Properties: request gate (SpecGate) *)

\* the header holds a part that names the auth cookie with the valid token
carriesValid(cookieHeader) ==
  \E i \in 1..Len(cookieHeader) :
    trim(cookieHeader[i].n) = AUTH_COOKIE /\ trim(cookieHeader[i].v) = AUTH_TOKEN

\* a request for something under /api/ other than the login route
Unauthenticated ==
  /\ sharedSecret
  /\ hreq # NoReq
  /\ ~carriesValid(hreq.cookie)
  /\ toLowerCase(hreq.path)[1] = "/api/"
  /\ ~startsWithApiLogin(toLowerCase(hreq.path))

====
